---- MODULE Spec2Model ----
(***************************************************************************)
(* A model of the outbound-request resilience layer of slashnews.org:      *)
(* CircuitBreaker, RetryManager and CircuitBreakerRegistry of              *)
(* src/utils/circuitBreaker.ts, and the calls HackerNewsApi makes through  *)
(* them, run on a single-threaded event loop.  An                          *)
(* action is one uninterrupted run of JavaScript between two await points. *)
(* Times are milliseconds, as Date.now() gives them.                       *)
(***************************************************************************)
EXTENDS Integers, Sequences, FiniteSets, TLC

VARIABLES
  now,                \* Date.now()
  ticks,              \* how many times the clock has advanced (bounds the run)
  breakers,           \* the CircuitBreaker objects ever constructed, by identity
  registry,           \* CircuitBreakerRegistry.breakers: name -> object identity, 0 = absent
  calls,              \* the asynchronous calls: one record per call slot
  isTestEnvironment,  \* the flag executeWithCircuitBreaker computes from the environment
  healthy,            \* the dependency has recovered: operations invoked from now on succeed
  hist,               \* per breaker object, the completions it has recorded (history)
  app                 \* the application above the registry: the HackerNewsApi call in progress

vars == <<now, ticks, breakers, registry, calls, isTestEnvironment, healthy, hist, app>>

(***************************************************************************)
(* Bounds of the model.                                                    *)
(***************************************************************************)
NumCalls == 3
NumRetryCalls == 1
NumRegistryCalls == 2
MaxTicks == 2
MaxThreshold == 2
MaxTimeouts == 1
MaxRetries == 2

Calls == 1..NumCalls
RetryCalls == 1..NumRetryCalls
RegistryCalls == 1..NumRegistryCalls
\* the amounts by which the clock advances between two events
TickSteps == {500, 30000}
ShortTickSteps == {500}

\* call sites of executeWithCircuitBreaker in HackerNewsApi: the breaker name
\* and the retry options each passes
CallSites ==
  { [site |-> "getTopStories", name |-> "hacker-news-stories",
     options |-> [maxRetries |-> 2, baseDelayMs |-> 1000]],
    [site |-> "getNewStories", name |-> "hacker-news-stories",
     options |-> [maxRetries |-> 2, baseDelayMs |-> 1000]],
    [site |-> "fetchHtmlContent", name |-> "proxy-service-corsproxy.io",
     options |-> [maxRetries |-> 1, baseDelayMs |-> 1000]] }

Names == {s.name : s \in CallSites}

(***************************************************************************)
(* CircuitBreaker                                                          *)
(***************************************************************************)
CLOSED == "CLOSED"
OPEN == "OPEN"
HALF_OPEN == "HALF_OPEN"
CircuitState == {CLOSED, OPEN, HALF_OPEN}

\* lastFailureTime?: number, before the first failure; also an option the
\* caller's options object does not define
Undefined == 0 - 1

\* the number arithmetic on undefined gives
NaN == 0 - 2

IsNumber(x) == x \notin {Undefined, NaN}

\* a + b, a < b and a >= b of JavaScript: undefined converts to NaN, a sum with
\* NaN is NaN, a comparison with NaN is false
Add(a, b) == IF IsNumber(a) /\ IsNumber(b) THEN a + b ELSE NaN
LessThan(a, b) == IsNumber(a) /\ IsNumber(b) /\ a < b
AtLeast(a, b) == IsNumber(a) /\ IsNumber(b) /\ a >= b

DefaultFailureThreshold == 5
DefaultRecoveryTimeout == 30000
DefaultMonitoringPeriod == 10000

DefaultBreakerOptions ==
  [failureThreshold |-> DefaultFailureThreshold,
   recoveryTimeout  |-> DefaultRecoveryTimeout,
   monitoringPeriod |-> DefaultMonitoringPeriod]

\* the options a caller constructs a breaker with, other than the defaults
OptionChoices ==
  [failureThreshold : 1..MaxThreshold,
   recoveryTimeout  : {1000},
   monitoringPeriod : {DefaultMonitoringPeriod}]

\* new CircuitBreaker(name, options)
NewCircuitBreaker(name, options) ==
  [name            |-> name,
   options         |-> options,
   failureCount    |-> 0,
   successCount    |-> 0,
   timeoutCount    |-> 0,
   lastFailureTime |-> Undefined,
   nextRetryTime   |-> 0,
   state           |-> CLOSED]

\* execute, up to the try block: the OPEN check
\* execute without the OPEN check
ExecuteRejects_Never(b, t) == FALSE

\* the OPEN check without the comparison with nextRetryTime
ExecuteRejects_WhileOpen(b, t) == b.state = OPEN

ExecuteRejects(b, t) == b.state = OPEN /\ LessThan(t, b.nextRetryTime)

ExecuteEntry(b, t) ==
  IF b.state = OPEN /\ ~LessThan(t, b.nextRetryTime)
    THEN [b EXCEPT !.state = HALF_OPEN]
    ELSE b

\* onSuccess without `this.failureCount = 0`
onSuccess_KeepsFailureCount(b) ==
  LET b1 == [b EXCEPT !.successCount = @ + 1]
  IN  IF b1.state = HALF_OPEN THEN [b1 EXCEPT !.state = CLOSED] ELSE b1

\* onSuccess closing the breaker whatever its state
onSuccess_ClosesAlways(b) ==
  [b EXCEPT !.successCount = @ + 1, !.failureCount = 0, !.state = CLOSED]

onSuccess(b) ==
  LET b1 == [b EXCEPT !.successCount = @ + 1, !.failureCount = 0]
  IN  IF b1.state = HALF_OPEN THEN [b1 EXCEPT !.state = CLOSED] ELSE b1

\* onFailure with `>` for `>=` in the threshold test
onFailure_StrictThreshold(b, t) ==
  LET b1 == [b EXCEPT !.failureCount = @ + 1, !.lastFailureTime = t]
  IN  IF b1.failureCount > b1.options.failureThreshold
        THEN [b1 EXCEPT !.state = OPEN, !.nextRetryTime = t + b1.options.recoveryTimeout]
        ELSE b1

\* onFailure counting only failures within monitoringPeriod of the one before
onFailure_Windowed(b, t) ==
  LET recent == b.lastFailureTime # Undefined
                  /\ t - b.lastFailureTime <= b.options.monitoringPeriod
      b1 == [b EXCEPT !.failureCount = IF recent THEN @ + 1 ELSE 1, !.lastFailureTime = t]
  IN  IF AtLeast(b1.failureCount, b1.options.failureThreshold)
        THEN [b1 EXCEPT !.state = OPEN, !.nextRetryTime = Add(t, b1.options.recoveryTimeout)]
        ELSE b1

onFailure(b, t) ==
  LET b1 == [b EXCEPT !.failureCount = @ + 1, !.lastFailureTime = t]
  IN  IF AtLeast(b1.failureCount, b1.options.failureThreshold)
        THEN [b1 EXCEPT !.state = OPEN, !.nextRetryTime = Add(t, b1.options.recoveryTimeout)]
        ELSE b1

\* onTimeout counting the failure itself instead of calling onFailure
onTimeout_NoCheck(b, t) ==
  [b EXCEPT !.timeoutCount = @ + 1, !.failureCount = @ + 1, !.lastFailureTime = t]

onTimeout(b, t) == onFailure([b EXCEPT !.timeoutCount = @ + 1], t)

\* onFailure throws after its assignments: the OPEN branch logs
\* new Date(this.nextRetryTime).toISOString(), a RangeError for NaN
onFailureThrows(b, t) ==
  /\ AtLeast(b.failureCount + 1, b.options.failureThreshold)
  /\ ~IsNumber(onFailure(b, t).nextRetryTime)

getStats(b) ==
  [failureCount    |-> b.failureCount,
   successCount    |-> b.successCount,
   timeoutCount    |-> b.timeoutCount,
   lastFailureTime |-> b.lastFailureTime,
   state           |-> b.state]

reset(b) ==
  [b EXCEPT !.failureCount = 0, !.successCount = 0, !.timeoutCount = 0,
            !.lastFailureTime = Undefined, !.nextRetryTime = 0, !.state = CLOSED]

(***************************************************************************)
(* RetryManager                                                            *)
(***************************************************************************)
DefaultMaxRetries == 3
DefaultBaseDelayMs == 1000
DefaultMaxDelayMs == 30000
DefaultBackoffMultiplier == 2

defaultOptions ==
  [maxRetries        |-> DefaultMaxRetries,
   baseDelayMs       |-> DefaultBaseDelayMs,
   maxDelayMs        |-> DefaultMaxDelayMs,
   backoffMultiplier |-> DefaultBackoffMultiplier,
   jitter            |-> TRUE]

\* { ...this.defaultOptions, ...options }
MergeOptions(defaults, options) ==
  [k \in DOMAIN defaults |-> IF k \in DOMAIN options THEN options[k] ELSE defaults[k]]

RECURSIVE Pow(_, _)
Pow(x, n) == IF n = 0 THEN 1 ELSE x * Pow(x, n - 1)

Min(a, b) == IF a <= b THEN a ELSE b

\* the delay without Math.min(..., maxDelayMs)
BackoffDelay_Uncapped(config, attempt) ==
  config.baseDelayMs * Pow(config.backoffMultiplier, attempt)

\* Math.min(baseDelayMs * Math.pow(backoffMultiplier, attempt), maxDelayMs)
BackoffDelay(config, attempt) ==
  Min(config.baseDelayMs * Pow(config.backoffMultiplier, attempt), config.maxDelayMs)

\* Math.random() in [0, 1), in thousandths
JitterChoices == {0, 999}
\* a timer fires at or after its due time, the clock moves in steps of 500 ms:
\* the attempts a jittered sleep allows are among those the unjittered one allows
NoJitter == {0}

\* delay += Math.random() * delay * 0.1, when config.jitter
JitteredDelay(config, attempt, r) ==
  LET delay == BackoffDelay(config, attempt)
  IN  IF config.jitter THEN delay + ((r * delay) \div 10000) ELSE delay

(***************************************************************************)
(* Calls.  A call slot is one invocation of CircuitBreaker.execute,        *)
(* RetryManager.executeWithRetry or                                        *)
(* CircuitBreakerRegistry.executeWithCircuitBreaker by application code.   *)
(***************************************************************************)
NoError == [kind |-> "none", attempt |-> 0]

\* no HackerNewsApi call in progress
IdleApp == [pc |-> "idle", ids |-> <<>>, result |-> NoError]

\* the Error object a failing invocation raises: one object per attempt
Err(kind, attempt) == [kind |-> kind, attempt |-> attempt]

IdleCall ==
  [pc        |-> "idle",      \* idle, pending (operation in flight), sleeping, done
   via       |-> "none",      \* execute, retry, registry, bypass
   name      |-> "none",      \* breakerName, for a call through the registry
   breaker   |-> 0,           \* the breaker object the call holds, 0 = none
   config    |-> defaultOptions,
   attempt   |-> 0,           \* the loop variable of executeWithRetry
   wakeAt    |-> 0,           \* when the pending sleep(delay) is due
   lastError |-> NoError,
   result    |-> NoError,     \* kind "value": resolved; an error kind: rejected with it
   invoked   |-> 0,           \* history: invocations of the underlying operation
   attempts  |-> 0,           \* history: invocations of the retried operation
   failed    |-> 0,           \* history: attempts that threw
   waits     |-> 0,           \* history: backoff sleeps started
   enteredAs |-> "none",      \* history: breaker state when the operation was last invoked
   mayFail   |-> TRUE]        \* the pending operation was invoked before recovery

\* every call wrapped in executeWithRetry, a direct execute call included
Retried_Always(call) == TRUE

Retried(call) == call.via \in {"retry", "registry"}
Guarded(call) == call.via \in {"execute", "registry"}

\* the loop bound `attempt < maxRetries` for `attempt <= maxRetries`
Thrown_OneAttemptShort(call, error, t, r) ==
  LET c1 == [call EXCEPT !.lastError = error, !.failed = @ + 1]
  IN  IF Retried(c1) /\ c1.attempt + 1 < c1.config.maxRetries
        THEN [c1 EXCEPT !.pc = "sleeping",
                        !.wakeAt = t + JitteredDelay(c1.config, c1.attempt, r),
                        !.waits = @ + 1]
        ELSE [c1 EXCEPT !.pc = "done", !.result = c1.lastError]

\* the catch block keeping the first error: `lastError ??= error`
Thrown_FirstError(call, error, t, r) ==
  LET c1 == [call EXCEPT !.lastError = IF @ = NoError THEN error ELSE @, !.failed = @ + 1]
  IN  IF Retried(c1) /\ c1.attempt # c1.config.maxRetries
        THEN [c1 EXCEPT !.pc = "sleeping",
                        !.wakeAt = t + JitteredDelay(c1.config, c1.attempt, r),
                        !.waits = @ + 1]
        ELSE [c1 EXCEPT !.pc = "done", !.result = c1.lastError]

\* executeWithRetry's catch block, or the rejection of a call nothing retries
Thrown(call, error, t, r) ==
  LET c1 == [call EXCEPT !.lastError = error, !.failed = @ + 1]
  IN  IF Retried(c1) /\ c1.attempt # c1.config.maxRetries
        THEN [c1 EXCEPT !.pc = "sleeping",
                        !.wakeAt = t + JitteredDelay(c1.config, c1.attempt, r),
                        !.waits = @ + 1]
        ELSE [c1 EXCEPT !.pc = "done", !.result = c1.lastError]

\* execute counting its own OPEN rejection as a failure
StartAttempt_CountsRejection(call, b, t, r) ==
  LET c1 == [call EXCEPT !.attempts = @ + 1, !.wakeAt = 0]
  IN  IF Guarded(c1) /\ ExecuteRejects(b, t)
        THEN [call |-> Thrown(c1, Err("openError", c1.attempt), t, r),
              breaker |-> [b EXCEPT !.failureCount = @ + 1, !.lastFailureTime = t]]
        ELSE [call |-> [c1 EXCEPT !.pc = "pending", !.invoked = @ + 1,
                                  !.mayFail = ~healthy,
                                  !.enteredAs = IF Guarded(c1) THEN ExecuteEntry(b, t).state
                                                               ELSE "none"],
              breaker |-> IF Guarded(c1) THEN ExecuteEntry(b, t) ELSE b]

\* one invocation of the retried operation, up to its first await
StartAttempt(call, b, t, r) ==
  LET c1 == [call EXCEPT !.attempts = @ + 1, !.wakeAt = 0]
  IN  IF Guarded(c1) /\ ExecuteRejects(b, t)
        THEN [call |-> Thrown(c1, Err("openError", c1.attempt), t, r), breaker |-> b]
        ELSE [call |-> [c1 EXCEPT !.pc = "pending", !.invoked = @ + 1,
                                  !.mayFail = ~healthy,
                                  !.enteredAs = IF Guarded(c1) THEN ExecuteEntry(b, t).state
                                                               ELSE "none"],
              breaker |-> IF Guarded(c1) THEN ExecuteEntry(b, t) ELSE b]

\* call slots are taken in order
NextIdle(c) == calls[c].pc = "idle" /\ \A d \in DOMAIN calls : d < c => calls[d].pc # "idle"

Instances == 1..Len(breakers)

\* the breaker a call holds (a placeholder for a call that holds none)
BreakerOf(call) ==
  IF call.breaker = 0 THEN NewCircuitBreaker("none", DefaultBreakerOptions)
                      ELSE breakers[call.breaker]

\* a completion finding its breaker by name in the registry when it runs
Record_ByName(i, b, e) ==
  LET j == IF i # 0 /\ b.name \in DOMAIN registry /\ registry[b.name] # 0
             THEN registry[b.name] ELSE i
  IN  /\ breakers' = IF j = 0 THEN breakers ELSE [breakers EXCEPT ![j] = b]
      /\ hist' = IF j = 0 \/ e = "none" THEN hist ELSE [hist EXCEPT ![j] = Append(@, e)]

\* the breaker objects and their histories after object i becomes b and records event e
Record(i, b, e) ==
  /\ breakers' = IF i = 0 THEN breakers ELSE [breakers EXCEPT ![i] = b]
  /\ hist' = IF i = 0 \/ e = "none" THEN hist ELSE [hist EXCEPT ![i] = Append(@, e)]

(***************************************************************************)
(* Actions                                                                 *)
(***************************************************************************)

\* breaker.execute(operation), called directly, up to `await operation()`
Execute(c, i) ==
  /\ NextIdle(c)
  /\ i \in Instances
  /\ LET call == [IdleCall EXCEPT !.via = "execute", !.breaker = i]
         s    == StartAttempt(call, breakers[i], now, 0)
     IN  /\ calls' = [calls EXCEPT ![c] = s.call]
         /\ Record(i, s.breaker, "none")
  /\ UNCHANGED <<now, ticks, registry, isTestEnvironment, healthy, app>>

\* the pending operation of call c resolves: onSuccess, and the value is returned
OperationResolves(c) ==
  /\ calls[c].pc = "pending"
  /\ LET call == calls[c]
     IN  /\ calls' = [calls EXCEPT ![c] = [call EXCEPT !.pc = "done",
                                                      !.result = Err("value", call.attempt)]]
         /\ Record(IF Guarded(call) THEN call.breaker ELSE 0, onSuccess(BreakerOf(call)), "S")
  /\ UNCHANGED <<now, ticks, registry, isTestEnvironment, healthy, app>>

\* the pending operation of call c rejects: onFailure, the error is re-thrown
\* (or onFailure's own, when it throws), and executeWithRetry (when it is the
\* caller) catches it
OperationRejects(c, r) ==
  /\ calls[c].pc = "pending"
  /\ calls[c].mayFail
  /\ LET call  == calls[c]
         error == IF Guarded(call) /\ onFailureThrows(BreakerOf(call), now)
                    THEN Err("rangeError", call.attempt)
                    ELSE Err("opError", call.attempt)
     IN  /\ calls' = [calls EXCEPT ![c] = Thrown(call, error, now, r)]
         /\ Record(IF Guarded(call) THEN call.breaker ELSE 0,
                   onFailure(BreakerOf(call), now), "F")
  /\ UNCHANGED <<now, ticks, registry, isTestEnvironment, healthy, app>>

\* sleep(delay) of call c is over: the loop's next iteration invokes the operation
SleepEnds(c, r) ==
  /\ calls[c].pc = "sleeping"
  /\ now >= calls[c].wakeAt
  /\ LET call == [calls[c] EXCEPT !.attempt = @ + 1]
         s    == StartAttempt(call, BreakerOf(call), now, r)
     IN  /\ calls' = [calls EXCEPT ![c] = s.call]
         /\ Record(IF Guarded(call) THEN call.breaker ELSE 0, s.breaker, "none")
  /\ UNCHANGED <<now, ticks, registry, isTestEnvironment, healthy, app>>

\* breaker.onTimeout()
OnTimeout(i) ==
  /\ i \in Instances
  /\ breakers[i].timeoutCount < MaxTimeouts
  /\ Record(i, onTimeout(breakers[i], now), "T")
  /\ UNCHANGED <<now, ticks, registry, calls, isTestEnvironment, healthy, app>>

\* breaker.reset()
Reset(i) ==
  /\ i \in Instances
  /\ breakers[i] # reset(breakers[i])
  /\ breakers' = [breakers EXCEPT ![i] = reset(@)]
  /\ hist' = [hist EXCEPT ![i] = <<>>]
  /\ UNCHANGED <<now, ticks, registry, calls, isTestEnvironment, healthy, app>>

\* time passes
Tick(d) ==
  /\ ticks < MaxTicks
  /\ now' = now + d
  /\ ticks' = ticks + 1
  /\ UNCHANGED <<breakers, registry, calls, isTestEnvironment, healthy, hist, app>>

(***************************************************************************)
(* Spec: one CircuitBreaker, constructed with any of OptionChoices, used   *)
(* directly by concurrent execute calls.                                   *)
(***************************************************************************)
Init ==
  /\ now = 0
  /\ ticks = 0
  /\ \E o \in OptionChoices : breakers = <<NewCircuitBreaker("breaker", o)>>
  /\ registry = [n \in Names |-> 0]
  /\ calls = [c \in Calls |-> IdleCall]
  /\ isTestEnvironment = FALSE
  /\ healthy = FALSE
  /\ hist = <<<<>>>>
  /\ app = IdleApp

Next ==
  \/ \E c \in Calls : Execute(c, 1)
  \/ \E c \in Calls : OperationResolves(c)
  \/ \E c \in Calls : OperationRejects(c, 0)
  \/ OnTimeout(1)
  \/ Reset(1)
  \/ \E d \in ShortTickSteps : Tick(d)

Spec == Init /\ [][Next]_vars

(***************************************************************************)
(* SpecRetry: RetryManager.executeWithRetry on operations that resolve or  *)
(* reject as they please.                                                  *)
(***************************************************************************)
\* the options argument: any subset of the fields may be given
RetryOptionChoices ==
  {<<>>}
  \cup {[maxRetries |-> m] : m \in 0..MaxRetries}
  \cup {[maxRetries |-> m, baseDelayMs |-> 500, jitter |-> FALSE] : m \in 0..MaxRetries}
  \cup {[maxRetries |-> m, baseDelayMs |-> 500, maxDelayMs |-> 750, jitter |-> FALSE] :
          m \in 0..MaxRetries}
  \cup {[maxRetries |-> m, maxDelayMs |-> 1500] : m \in 0..MaxRetries}

\* retryManager.executeWithRetry(operation, options), up to `await operation()`
ExecuteWithRetry(c, options) ==
  /\ NextIdle(c)
  /\ LET call == [IdleCall EXCEPT !.via = "retry",
                                  !.config = MergeOptions(defaultOptions, options)]
         s    == StartAttempt(call, BreakerOf(call), now, 0)
     IN  calls' = [calls EXCEPT ![c] = s.call]
  /\ UNCHANGED <<now, ticks, breakers, registry, isTestEnvironment, healthy, hist, app>>

InitRetry ==
  /\ now = 0
  /\ ticks = 0
  /\ breakers = <<>>
  /\ registry = [n \in Names |-> 0]
  /\ calls = [c \in RetryCalls |-> IdleCall]
  /\ isTestEnvironment = FALSE
  /\ healthy = FALSE
  /\ hist = <<>>
  /\ app = IdleApp

NextRetry ==
  \/ \E c \in RetryCalls : \E o \in RetryOptionChoices : ExecuteWithRetry(c, o)
  \/ \E c \in RetryCalls : OperationResolves(c)
  \/ \E c \in RetryCalls : \E r \in JitterChoices : OperationRejects(c, r)
  \/ \E c \in RetryCalls : SleepEnds(c, 0)
  \/ \E d \in TickSteps : Tick(d)

SpecRetry == InitRetry /\ [][NextRetry]_vars

(***************************************************************************)
(* SpecRegistry: the singleton CircuitBreakerRegistry, used by the call    *)
(* sites of HackerNewsApi and by getOrCreateBreaker / resetAll.            *)
(***************************************************************************)
\* the options getOrCreateBreaker is given: none, or a full CircuitBreakerOptions
RegistryOptionChoices ==
  {<<>>, [failureThreshold |-> 2,
          recoveryTimeout  |-> DefaultRecoveryTimeout,
          monitoringPeriod |-> DefaultMonitoringPeriod]}

\* getOrCreateBreaker without the `has` test: a new breaker on every reference
getOrCreateBreaker_AlwaysNew(name, options) ==
  [breakers |-> Append(breakers,
                  NewCircuitBreaker(name, IF options = <<>> THEN DefaultBreakerOptions
                                                            ELSE options)),
   hist     |-> Append(hist, <<>>),
   registry |-> [registry EXCEPT ![name] = Len(breakers) + 1],
   breaker  |-> Len(breakers) + 1]

\* getOrCreateBreaker applying the options of a later reference
getOrCreateBreaker_Reconfigures(name, options) ==
  IF registry[name] = 0
    THEN [breakers |-> Append(breakers,
                         NewCircuitBreaker(name, IF options = <<>> THEN DefaultBreakerOptions
                                                                   ELSE options)),
          hist     |-> Append(hist, <<>>),
          registry |-> [registry EXCEPT ![name] = Len(breakers) + 1],
          breaker  |-> Len(breakers) + 1]
    ELSE [breakers |-> IF options = <<>> THEN breakers
                       ELSE [breakers EXCEPT ![registry[name]].options = options],
          hist     |-> hist,
          registry |-> registry,
          breaker  |-> registry[name]]

\* getOrCreateBreaker finding a breaker that resetAll has dropped
getOrCreateBreaker_Revives(name, options) ==
  LET known == IF registry[name] # 0 THEN registry[name]
               ELSE IF \E i \in Instances : breakers[i].name = name
                      THEN CHOOSE i \in Instances : breakers[i].name = name
                      ELSE 0
  IN  IF known = 0
        THEN [breakers |-> Append(breakers,
                             NewCircuitBreaker(name, IF options = <<>> THEN DefaultBreakerOptions
                                                                       ELSE options)),
              hist     |-> Append(hist, <<>>),
              registry |-> [registry EXCEPT ![name] = Len(breakers) + 1],
              breaker  |-> Len(breakers) + 1]
        ELSE [breakers |-> breakers, hist |-> hist,
              registry |-> [registry EXCEPT ![name] = known],
              breaker  |-> known]

\* getOrCreateBreaker(name, options): the registry, the objects and the one returned
getOrCreateBreaker(name, options) ==
  IF registry[name] = 0
    THEN [breakers |-> Append(breakers,
                         NewCircuitBreaker(name, IF options = <<>> THEN DefaultBreakerOptions
                                                                   ELSE options)),
          hist     |-> Append(hist, <<>>),
          registry |-> [registry EXCEPT ![name] = Len(breakers) + 1],
          breaker  |-> Len(breakers) + 1]
    ELSE [breakers |-> breakers, hist |-> hist, registry |-> registry,
          breaker  |-> registry[name]]

GetOrCreateBreaker(name, options) ==
  /\ registry[name] = 0
  /\ \A c \in DOMAIN calls : calls[c].pc = "idle"
  /\ LET g == getOrCreateBreaker(name, options)
     IN  /\ breakers' = g.breakers
         /\ hist' = g.hist
         /\ registry' = g.registry
  /\ UNCHANGED <<now, ticks, calls, isTestEnvironment, healthy, app>>

\* executeWithCircuitBreaker without the test-environment branch
ExecuteWithCircuitBreaker_NoBypass(c, s) ==
  /\ NextIdle(c)
  /\ LET g    == getOrCreateBreaker(s.name, <<>>)
         call == [IdleCall EXCEPT !.via = "registry", !.name = s.name,
                                  !.breaker = g.breaker,
                                  !.config = MergeOptions(defaultOptions, s.options)]
         a    == StartAttempt(call, g.breakers[g.breaker], now, 0)
     IN  /\ calls' = [calls EXCEPT ![c] = a.call]
         /\ breakers' = [g.breakers EXCEPT ![g.breaker] = a.breaker]
         /\ hist' = g.hist
         /\ registry' = g.registry
  /\ UNCHANGED <<now, ticks, isTestEnvironment, healthy, app>>

\* executeWithCircuitBreaker(breakerName, operation, retryOptions), up to the
\* first await
ExecuteWithCircuitBreaker(c, s) ==
  /\ NextIdle(c)
  /\ IF isTestEnvironment
       THEN /\ calls' = [calls EXCEPT ![c] =
                 [IdleCall EXCEPT !.via = "bypass", !.name = s.name, !.pc = "pending",
                                  !.attempts = 1, !.invoked = 1, !.mayFail = ~healthy]]
            /\ UNCHANGED <<breakers, hist, registry>>
       ELSE /\ LET g    == getOrCreateBreaker(s.name, <<>>)
                  call == [IdleCall EXCEPT !.via = "registry", !.name = s.name,
                                           !.breaker = g.breaker,
                                           !.config = MergeOptions(defaultOptions, s.options)]
                  a    == StartAttempt(call, g.breakers[g.breaker], now, 0)
              IN  /\ calls' = [calls EXCEPT ![c] = a.call]
                  /\ breakers' = [g.breakers EXCEPT ![g.breaker] = a.breaker]
                  /\ hist' = g.hist
                  /\ registry' = g.registry
  /\ UNCHANGED <<now, ticks, isTestEnvironment, healthy, app>>

InitRegistry ==
  /\ now = 0
  /\ ticks = 0
  /\ breakers = <<>>
  /\ registry = [n \in Names |-> 0]
  /\ calls = [c \in RegistryCalls |-> IdleCall]
  /\ isTestEnvironment = FALSE
  /\ healthy = FALSE
  /\ hist = <<>>
  /\ app = IdleApp

NextRegistry ==
  \/ \E n \in Names : \E o \in RegistryOptionChoices : GetOrCreateBreaker(n, o)
  \/ \E c \in RegistryCalls : \E s \in CallSites : ExecuteWithCircuitBreaker(c, s)
  \/ \E c \in RegistryCalls : OperationResolves(c)
  \/ \E c \in RegistryCalls : \E r \in NoJitter : OperationRejects(c, r)
  \/ \E c \in RegistryCalls : \E r \in NoJitter : SleepEnds(c, r)
  \/ \E d \in TickSteps : Tick(d)

SpecRegistry == InitRegistry /\ [][NextRegistry]_vars

(***************************************************************************)
(* SpecLive: the breaker of Spec while the dependency recovers.  Once      *)
(* `healthy`, every operation invoked succeeds; the clock keeps advancing  *)
(* while an OPEN breaker waits for its next-retry timestamp, and callers   *)
(* keep calling while the breaker is not CLOSED.                           *)
(***************************************************************************)
Waiting(i) == breakers[i].state = OPEN /\ now < breakers[i].nextRetryTime

\* the dependency recovers
Recover ==
  /\ ~healthy
  /\ healthy' = TRUE
  /\ UNCHANGED <<now, ticks, breakers, registry, calls, isTestEnvironment, hist, app>>

\* the caller of a finished call calls again: its slot is free for the next call
Recycle(c) ==
  /\ calls[c].pc = "done"
  /\ \/ calls[c].result.kind = "openError"
     \/ healthy /\ breakers[calls[c].breaker].state # CLOSED
  /\ calls' = [calls EXCEPT ![c] = IdleCall]
  /\ UNCHANGED <<now, ticks, breakers, registry, isTestEnvironment, healthy, hist, app>>

\* time passes, also beyond MaxTicks while a recovered dependency's breaker waits
TickLive(d) ==
  /\ ticks < MaxTicks \/ (healthy /\ \E i \in Instances : Waiting(i))
  /\ now' = now + d
  /\ ticks' = IF ticks < MaxTicks THEN ticks + 1 ELSE ticks
  /\ UNCHANGED <<breakers, registry, calls, isTestEnvironment, healthy, hist, app>>

\* the callers that keep calling
LiveCalls == 1..(NumCalls - 1)

NextLive ==
  \/ \E c \in LiveCalls : Execute(c, 1)
  \/ \E c \in LiveCalls : OperationResolves(c)
  \/ \E c \in LiveCalls : OperationRejects(c, 0)
  \/ \E c \in LiveCalls : Recycle(c)
  \/ Recover
  \/ \E d \in ShortTickSteps : TickLive(d)

\* the event loop runs every completion that is due, timers fire, and the
\* claim's hypotheses: time advances, calls keep being made, the dependency recovers
Fairness ==
  /\ \A c \in LiveCalls : WF_vars(OperationResolves(c) \/ OperationRejects(c, 0))
  /\ \A c \in LiveCalls : WF_vars(Recycle(c))
  /\ WF_vars(\E c \in LiveCalls : Execute(c, 1))
  /\ WF_vars(\E d \in ShortTickSteps : TickLive(d))
  /\ WF_vars(Recover)

SpecLive == Init /\ [][NextLive]_vars /\ Fairness

(***************************************************************************)
(* Histories.  hist[i] lists the completions breaker object i has recorded *)
(* since it was constructed or last reset: "S" a success, "F" a failure of *)
(* an executed operation, "T" an onTimeout.                                *)
(***************************************************************************)
Failure == {"F", "T"}

RECURSIVE TrailingFailures(_)
TrailingFailures(h) ==
  IF h = <<>> \/ h[Len(h)] \notin Failure THEN 0
  ELSE 1 + TrailingFailures(SubSeq(h, 1, Len(h) - 1))

\* the longest run of consecutive failures in h
RECURSIVE LongestFailureRun(_)
LongestFailureRun(h) ==
  IF h = <<>> THEN 0
  ELSE LET rest == LongestFailureRun(SubSeq(h, 1, Len(h) - 1))
           tail == TrailingFailures(h)
       IN  IF tail > rest THEN tail ELSE rest

\* this step, breaker object i records completion e
Completes(i, e) == hist'[i] = Append(hist[i], e)

\* this step, call c enters CircuitBreaker.execute on breaker object i
Enters(c, i) ==
  /\ calls'[c].breaker = i
  /\ calls'[c].attempts = calls[c].attempts + 1

Pending(i) == {c \in DOMAIN calls : calls[c].pc = "pending" /\ calls[c].breaker = i}

(***************************************************************************)
(* C1: when a failing call completes and it is at least the                *)
(* failureThreshold-th consecutive failure, the breaker is OPEN right      *)
(* after it; and a call that enters execute while the breaker is OPEN and  *)
(* the next-retry timestamp is still ahead is rejected with the            *)
(* breaker-open error without invoking the operation.                      *)
(***************************************************************************)
C1_OpensAndFailsFast ==
  [][\A i \in Instances :
       /\ (Completes(i, "F") /\ TrailingFailures(hist'[i]) >= breakers[i].options.failureThreshold)
            => breakers'[i].state = OPEN
       /\ \A c \in DOMAIN calls :
            (Enters(c, i) /\ breakers[i].state = OPEN /\ now < breakers[i].nextRetryTime)
              => /\ calls'[c].lastError.kind = "openError"
                 /\ calls'[c].invoked = calls[c].invoked
                 /\ calls'[c].pc # "pending"]_vars

C1_Witness ==
  \E i \in Instances : \E c \in Calls :
    /\ breakers[i].state = OPEN
    /\ TrailingFailures(hist[i]) >= breakers[i].options.failureThreshold
    /\ now < breakers[i].nextRetryTime
    /\ calls[c].breaker = i
    /\ calls[c].pc = "done"
    /\ calls[c].result.kind = "openError"
    /\ calls[c].invoked = 0

(***************************************************************************)
(* C2: at most one pending operation was invoked while the breaker was     *)
(* HALF_OPEN: the probe is alone.                                          *)
(***************************************************************************)
C2_SingleProbe ==
  \A i \in Instances :
    Cardinality({c \in Pending(i) : calls[c].enteredAs = HALF_OPEN}) <= 1

(***************************************************************************)
(* C3: right after a success the failure count is zero, and a breaker that *)
(* has never seen failureThreshold consecutive failures is CLOSED (so      *)
(* failureThreshold-1 failures, a success and failureThreshold-1 more      *)
(* failures leave it CLOSED).                                              *)
(***************************************************************************)
C3_SuccessResetsCount ==
  \A i \in Instances :
    /\ (hist[i] # <<>> /\ hist[i][Len(hist[i])] = "S") => breakers[i].failureCount = 0
    /\ LongestFailureRun(hist[i]) < breakers[i].options.failureThreshold
         => breakers[i].state = CLOSED

C3_Witness ==
  \E i \in Instances :
    /\ breakers[i].options.failureThreshold = 2
    /\ hist[i] = <<"F", "S", "F">>
    /\ breakers[i].state = CLOSED
    /\ breakers[i].failureCount = 1

(***************************************************************************)
(* C4: a call that completes while the breaker is HALF_OPEN closes it with *)
(* failureCount 0 when it succeeded, and opens it again, with the          *)
(* next-retry timestamp at the failure time plus recoveryTimeout, when it  *)
(* failed.                                                                 *)
(***************************************************************************)
C4_HalfOpenCompletion ==
  [][\A i \in Instances :
       breakers[i].state = HALF_OPEN =>
         /\ Completes(i, "S") =>
              (breakers'[i].state = CLOSED /\ breakers'[i].failureCount = 0)
         /\ Completes(i, "F") =>
              /\ breakers'[i].state = OPEN
              /\ breakers'[i].nextRetryTime = now + breakers[i].options.recoveryTimeout]_vars

(***************************************************************************)
(* C5: once the dependency has recovered, an OPEN breaker eventually lets  *)
(* a call through as the HALF_OPEN probe, and eventually is CLOSED.        *)
(***************************************************************************)
Probing(i) ==
  /\ breakers[i].state = HALF_OPEN
  /\ \E c \in Pending(i) : calls[c].enteredAs = HALF_OPEN

C5_Recovery ==
  /\ (healthy /\ breakers[1].state = OPEN) ~> Probing(1)
  /\ (healthy /\ breakers[1].state = OPEN) ~> (breakers[1].state = CLOSED)

C5_Witness ==
  /\ healthy
  /\ breakers[1].state = CLOSED
  /\ hist[1] # <<>> /\ hist[1][Len(hist[1])] = "S"
  /\ \E c \in Calls :
       /\ calls[c].pc = "done"
       /\ calls[c].enteredAs = HALF_OPEN
       /\ calls[c].result.kind = "value"
       /\ ~calls[c].mayFail

(***************************************************************************)
(* Calls of the retry helper                                               *)
(***************************************************************************)
RetryCallsMade == {c \in DOMAIN calls : calls[c].via = "retry"}
RegistryCallsMade == {c \in DOMAIN calls : calls[c].via = "registry"}

Resolved(c) == calls[c].pc = "done" /\ calls[c].result.kind = "value"
Rejected(c) == calls[c].pc = "done" /\ calls[c].result.kind # "value"

\* this step, the pending operation of call c fails
OperationFails(c) == calls[c].pc = "pending" /\ calls'[c].failed = calls[c].failed + 1

\* this step, call c starts an attempt
AttemptStarts(c) == calls'[c].attempts = calls[c].attempts + 1

\* this step, an attempt of call c is rejected by the OPEN breaker
AttemptRejected(c) ==
  /\ AttemptStarts(c)
  /\ calls'[c].invoked = calls[c].invoked
  /\ calls'[c].lastError.kind = "openError"

(***************************************************************************)
(* C6: executeWithRetry with maxRetries = m invokes the operation at most  *)
(* m+1 times; it returns the value of the first invocation that succeeds,  *)
(* after exactly k+1 invocations when the first k <= m failed; and it      *)
(* throws exactly when m+1 invocations have failed.                        *)
(***************************************************************************)
C6_RetryCount ==
  \A c \in RetryCallsMade :
    LET call == calls[c]
        m    == call.config.maxRetries
    IN  /\ call.invoked = call.attempts
        /\ call.invoked <= m + 1
        /\ Resolved(c) => (call.invoked = call.failed + 1 /\ call.failed <= m)
        /\ Rejected(c) <=> call.failed = m + 1
        /\ call.pc = "pending" => call.invoked = call.failed + 1
        /\ call.pc = "sleeping" => (call.invoked = call.failed /\ call.failed <= m)

C6_Witness ==
  \E c \in RetryCallsMade :
    /\ calls[c].config.maxRetries = 2
    /\ Resolved(c)
    /\ calls[c].failed = 2
    /\ calls[c].invoked = 3

(***************************************************************************)
(* C7: an attempt rejected by the OPEN breaker ends the call at once: the  *)
(* rejection is the call's result, with no backoff wait started.           *)
(***************************************************************************)
C7_OpenRejectionNotRetried ==
  [][\A c \in DOMAIN calls :
       (calls'[c].via = "registry" /\ AttemptRejected(c))
         => /\ calls'[c].pc = "done"
            /\ calls'[c].result.kind = "openError"
            /\ calls'[c].waits = calls[c].waits]_vars

(***************************************************************************)
(* C8: when the attempt with index maxRetries fails, executeWithRetry      *)
(* throws the error of that attempt, having slept maxRetries times (not    *)
(* after the last attempt) and invoked the operation maxRetries+1 times.   *)
(***************************************************************************)
C8_Exhaustion ==
  \A c \in RetryCallsMade :
    Rejected(c) =>
      /\ calls[c].result = Err("opError", calls[c].config.maxRetries)
      /\ calls[c].waits = calls[c].config.maxRetries
      /\ calls[c].invoked = calls[c].config.maxRetries + 1

C8_Witness ==
  \E c \in RetryCallsMade :
    /\ calls[c].config.maxRetries = 2
    /\ Rejected(c)
    /\ calls[c].result = Err("opError", 2)
    /\ calls[c].waits = 2

(***************************************************************************)
(* C9 as stated: every failed operation adds one to the breaker's failure  *)
(* count; an attempt made while the breaker is OPEN before its next-retry  *)
(* timestamp does not invoke the operation; and a call that ends in an     *)
(* error while its breaker is OPEN (before the next-retry timestamp)       *)
(* throws the breaker's OPEN rejection.                                    *)
(***************************************************************************)
C9_AsStated ==
  [][\A c \in DOMAIN calls :
       calls'[c].via = "registry" =>
         LET i == calls'[c].breaker
         IN  /\ OperationFails(c) => breakers'[i].failureCount = breakers[i].failureCount + 1
             /\ (AttemptStarts(c) /\ i \in Instances /\ Waiting(i))
                  => calls'[c].invoked = calls[c].invoked
             /\ (calls[c].pc # "done" /\ calls'[c].pc = "done"
                   /\ calls'[c].result.kind # "value"
                   /\ breakers'[i].state = OPEN /\ now < breakers'[i].nextRetryTime)
                  => calls'[c].result.kind = "openError"]_vars

(***************************************************************************)
(* C9 as amended: every failed operation adds one to the breaker's failure *)
(* count; an attempt that starts while the breaker is OPEN before its      *)
(* next-retry timestamp is rejected without invoking the operation and     *)
(* leaves the breaker as it is; the call throws the breaker's OPEN         *)
(* rejection when that attempt is its last one, and the operation's own    *)
(* error when its last attempt invoked the operation.                      *)
(***************************************************************************)
C9_Composition ==
  [][\A c \in DOMAIN calls :
       calls'[c].via = "registry" =>
         LET i == calls'[c].breaker
             m == calls'[c].config.maxRetries
         IN  /\ OperationFails(c) =>
                  /\ breakers'[i].failureCount = breakers[i].failureCount + 1
                  /\ calls'[c].pc = "done" <=> calls[c].attempt = m
                  /\ calls'[c].pc = "done" => calls'[c].result = Err("opError", m)
             /\ (AttemptStarts(c) /\ i \in Instances /\ Waiting(i))
                  => /\ AttemptRejected(c)
                     /\ breakers'[i] = breakers[i]
                     /\ calls'[c].pc = "done" <=> calls'[c].attempt = m
                     /\ calls'[c].pc = "done" => calls'[c].result = Err("openError", m)]_vars

C9_Witness ==
  \E c \in RegistryCallsMade :
    /\ Rejected(c)
    /\ calls[c].result.kind = "openError"
    /\ calls[c].invoked >= 1
    /\ calls[c].invoked < calls[c].attempts
    /\ Waiting(calls[c].breaker)

(***************************************************************************)
(* C10: calls through the registry hold the same breaker exactly when they *)
(* name the same endpoint, the breaker registered under that name; a       *)
(* failure of one call adds one to the failure count of the breaker every  *)
(* call of that name holds; and a step changes no breaker other than the   *)
(* one the acting call holds.                                              *)
(***************************************************************************)
C10_SharedByName ==
  [][/\ \A c, d \in DOMAIN calls :
          (calls'[c].via = "registry" /\ calls'[d].via = "registry")
            => /\ calls'[c].name = calls'[d].name <=> calls'[c].breaker = calls'[d].breaker
               /\ registry'[calls'[c].name] = calls'[c].breaker
               /\ breakers'[calls'[c].breaker].name = calls'[c].name
     /\ \A c \in DOMAIN calls :
          (calls'[c].via = "registry" /\ OperationFails(c))
            => breakers'[calls'[c].breaker].failureCount
                 = breakers[calls'[c].breaker].failureCount + 1
     /\ \A i \in Instances :
          breakers'[i] # breakers[i]
            => \E c \in DOMAIN calls : calls'[c] # calls[c] /\ calls'[c].breaker = i]_vars

C10_Witness ==
  \E c, d \in RegistryCallsMade :
    /\ c # d
    /\ calls[c].breaker = calls[d].breaker
    /\ calls[c].invoked = 1 /\ calls[c].failed = 1
    /\ calls[d].invoked = 1 /\ calls[d].failed = 2
    /\ calls[d].lastError.kind = "openError"
    /\ breakers[calls[c].breaker].failureCount = 2
    /\ breakers[calls[c].breaker].options.failureThreshold = 2
    /\ \E j \in Instances : j # calls[c].breaker /\ breakers[j].failureCount = 0

(***************************************************************************)
(* SpecScenario: one caller that calls execute every Pace milliseconds on  *)
(* a breaker with failureThreshold 3 and recoveryTimeout 1000, each call   *)
(* completing before the next is made.                                     *)
(***************************************************************************)
NumScenarioCalls == 6

ScenarioCalls == 1..NumScenarioCalls

\* the time between two calls of the caller
Pace == 500

ScenarioOptionChoices ==
  [failureThreshold : {3},
   recoveryTimeout  : {1000},
   monitoringPeriod : {100, DefaultMonitoringPeriod}]

\* Math.ceil(x / d)
Ceil(x, d) == 0 - ((0 - x) \div d)

\* the OPEN error's `Next retry in ...s` with Math.floor for Math.ceil
OpenErrorSeconds_Floor(b, t) == (b.nextRetryTime - t) \div 1000

\* the number in the OPEN error's message: `Next retry in ${...}s`
OpenErrorSeconds(b, t) == Ceil(b.nextRetryTime - t, 1000)

\* the call that is due at the present time
Due == now \div Pace + 1

\* the caller's c-th call, made at its time
ExecuteOnSchedule(c) ==
  /\ c = Due
  /\ Execute(c, 1)

\* Pace milliseconds pass once the call that was due has completed
TickScenario ==
  /\ Due < NumScenarioCalls
  /\ calls[Due].pc = "done"
  /\ now' = now + Pace
  /\ ticks' = ticks + 1
  /\ UNCHANGED <<breakers, registry, calls, isTestEnvironment, healthy, hist, app>>

InitScenario ==
  /\ now = 0
  /\ ticks = 0
  /\ \E o \in ScenarioOptionChoices : breakers = <<NewCircuitBreaker("breaker", o)>>
  /\ registry = [n \in Names |-> 0]
  /\ calls = [c \in ScenarioCalls |-> IdleCall]
  /\ isTestEnvironment = FALSE
  /\ healthy = FALSE
  /\ hist = <<<<>>>>
  /\ app = IdleApp

NextScenario ==
  \/ \E c \in ScenarioCalls : ExecuteOnSchedule(c)
  \/ \E c \in ScenarioCalls : OperationResolves(c)
  \/ \E c \in ScenarioCalls : OperationRejects(c, 0)
  \/ TickScenario

SpecScenario == InitScenario /\ [][NextScenario]_vars

\* x is within a tenth of y
About(x, y) == 10 * (IF x >= y THEN x - y ELSE y - x) <= y

\* this step, the one pending call of the scenario resolves or is rejected
Returns(kind) ==
  \E c \in DOMAIN calls :
    /\ calls[c].pc = "pending"
    /\ calls'[c].pc = "done"
    /\ calls'[c].result.kind = kind

\* the scenario's steps other than what the fourth call's error states
ScenarioSteps ==
  LET b  == breakers[1]
      b2 == breakers'[1]
      FFF == <<"F", "F", "F">>
  IN  /\ (Completes(1, "F") /\ hist'[1] = FFF)
           => (b2.state = OPEN /\ b2.nextRetryTime = now + 1000 /\ Returns("opError"))
      /\ \A c \in DOMAIN calls :
           (Enters(c, 1) /\ hist[1] = FFF /\ now = b.lastFailureTime + 500)
             => /\ AttemptRejected(c)
                /\ calls'[c].pc = "done"
                /\ calls'[c].result.kind = "openError"
                /\ calls'[c].invoked = 0
                /\ b2 = b
      /\ \A c \in DOMAIN calls :
           (Enters(c, 1) /\ hist[1] = FFF /\ now >= b.lastFailureTime + 1000)
             => (calls'[c].pc = "pending" /\ calls'[c].invoked = 1)
      /\ \A c \in DOMAIN calls :
           (Enters(c, 1) /\ hist[1] = FFF \o <<"S">>)
             => (calls'[c].pc = "pending" /\ calls'[c].invoked = 1)
      /\ (Completes(1, "S") /\ hist[1] \in {FFF, FFF \o <<"S">>})
           => /\ Returns("value")
              /\ getStats(b2).state = CLOSED
              /\ getStats(b2).failureCount = 0

\* this step, a call is rejected 500 ms after the third failure opened the breaker
FourthCallRejected ==
  /\ hist[1] = <<"F", "F", "F">>
  /\ now = breakers[1].lastFailureTime + 500
  /\ \E c \in DOMAIN calls : Enters(c, 1)

(***************************************************************************)
(* C11 as stated: with failureThreshold 3 and recoveryTimeout 1000, three  *)
(* consecutive failing calls open the breaker; a call 500 ms later is      *)
(* rejected without invoking the operation, and its error states about     *)
(* 500 ms remaining; a call 1000 ms after the opening invokes the          *)
(* operation; when it succeeds, the next call is invoked too, and after    *)
(* each success getStats reports CLOSED with failureCount 0.               *)
(***************************************************************************)
C11_AsStated ==
  [][/\ ScenarioSteps
     /\ FourthCallRejected => About(OpenErrorSeconds(breakers[1], now) * 1000, 500)]_vars

(***************************************************************************)
(* C11 as amended: the same scenario, where the rejected call's error      *)
(* states the remaining time in whole seconds, rounded up: 1 second for    *)
(* the 500 ms that remain.                                                 *)
(***************************************************************************)
C11_Scenario ==
  [][/\ ScenarioSteps
     /\ FourthCallRejected
          => /\ breakers[1].nextRetryTime - now = 500
             /\ OpenErrorSeconds(breakers[1], now) = 1]_vars

C11_Witness ==
  /\ breakers[1].options.failureThreshold = 3
  /\ breakers[1].options.recoveryTimeout = 1000
  /\ hist[1] = <<"F", "F", "F", "S", "S">>
  /\ calls[4].result.kind = "openError" /\ calls[4].invoked = 0
  /\ calls[5].enteredAs = HALF_OPEN /\ Resolved(5)
  /\ calls[6].enteredAs = CLOSED /\ Resolved(6)
  /\ getStats(breakers[1]).state = CLOSED
  /\ getStats(breakers[1]).failureCount = 0

(***************************************************************************)
(* Direct calls of CircuitBreaker.execute                                  *)
(***************************************************************************)
ExecuteCallsMade == {c \in DOMAIN calls : calls[c].via = "execute"}

(***************************************************************************)
(* C12: a call of execute invokes the operation at most once and never     *)
(* waits to try again; when its operation throws, the breaker's failure    *)
(* count goes up by exactly one, lastFailureTime becomes the present time, *)
(* and the call ends with the error of that invocation.                    *)
(***************************************************************************)
C12_NoRetry ==
  [][\A c \in DOMAIN calls :
       calls'[c].via = "execute" =>
         /\ calls'[c].invoked <= 1
         /\ calls'[c].attempts <= 1
         /\ calls'[c].waits = 0
         /\ calls'[c].pc # "sleeping"
         /\ OperationFails(c) =>
              LET i == calls[c].breaker
              IN  /\ breakers'[i].failureCount = breakers[i].failureCount + 1
                  /\ breakers'[i].lastFailureTime = now
                  /\ calls'[c].pc = "done"
                  /\ calls'[c].result = Err("opError", 0)
                  /\ calls'[c].invoked = 1]_vars

C12_Witness ==
  \E c \in ExecuteCallsMade :
    /\ Rejected(c)
    /\ calls[c].result = Err("opError", 0)
    /\ calls[c].invoked = 1
    /\ calls[c].failed = 1
    /\ breakers[calls[c].breaker].failureCount = 1
    /\ breakers[calls[c].breaker].lastFailureTime = now
    /\ now > 0

(***************************************************************************)
(* C14: whatever the interleaving of pending execute calls and onTimeout   *)
(* calls, no breaker is CLOSED with its failure count at or above its      *)
(* failureThreshold.                                                       *)
(***************************************************************************)
C14_CountBelowThresholdWhileClosed ==
  \A i \in Instances :
    ~(breakers[i].state = CLOSED
        /\ breakers[i].failureCount >= breakers[i].options.failureThreshold)

C14_Witness ==
  \E i \in Instances :
    /\ breakers[i].options.failureThreshold = 2
    /\ hist[i] = <<"F", "T">>
    /\ breakers[i].state = OPEN
    /\ breakers[i].failureCount = 2
    /\ Cardinality({c \in Pending(i) : calls[c].enteredAs = CLOSED}) = 2

(***************************************************************************)
(* SpecAdmin: the registry as its whole interface allows it to be used:    *)
(* getOrCreateBreaker with any options object, at any time;                *)
(* executeWithCircuitBreaker; and resetAll.  A breaker object that         *)
(* resetAll has dropped from the registry lives on in the calls that hold  *)
(* it.                                                                     *)
(***************************************************************************)
NumAdminCalls == 1
MaxBreakers == 2

AdminCalls == 1..NumAdminCalls

\* options?: Partial<CircuitBreakerOptions>: all three fields, or some (a
\* breaker with no options is what executeWithCircuitBreaker creates)
AdminOptionChoices ==
  {[failureThreshold |-> 1, recoveryTimeout |-> 1000,
    monitoringPeriod |-> DefaultMonitoringPeriod],
   [failureThreshold |-> 1, recoveryTimeout |-> Undefined,
    monitoringPeriod |-> Undefined]}

\* the amounts by which the clock advances between two events
AdminTickSteps == {1000}

AdminSites == {s \in CallSites : s.site \in {"getTopStories", "fetchHtmlContent"}}

\* getAllStats(): name -> stats, for the breakers in the registry
getAllStats ==
  [n \in {n \in Names : registry[n] # 0} |-> getStats(breakers[registry[n]])]

\* this.breakers.clear()
resetAll == [n \in Names |-> 0]

\* getOrCreateBreaker(name, options), whether or not the name is known
Reference(n, o) ==
  /\ registry[n] # 0 \/ Len(breakers) < MaxBreakers
  /\ LET g == getOrCreateBreaker(n, o)
     IN  /\ breakers' = g.breakers
         /\ hist' = g.hist
         /\ registry' = g.registry
  /\ UNCHANGED <<now, ticks, calls, isTestEnvironment, healthy, app>>

\* executeWithCircuitBreaker, while the model has room for the breaker it creates
ExecuteThroughRegistry(c, s) ==
  /\ isTestEnvironment \/ registry[s.name] # 0 \/ Len(breakers) < MaxBreakers
  /\ ExecuteWithCircuitBreaker(c, s)

\* resetAll(); the history of a breaker object notes that it was dropped ("R")
ResetAll ==
  /\ registry # resetAll
  /\ registry' = resetAll
  /\ hist' = [i \in DOMAIN hist |->
               IF \E n \in Names : registry[n] = i THEN Append(hist[i], "R") ELSE hist[i]]
  /\ UNCHANGED <<now, ticks, breakers, calls, isTestEnvironment, healthy, app>>

InitAdmin ==
  /\ now = 0
  /\ ticks = 0
  /\ breakers = <<>>
  /\ registry = [n \in Names |-> 0]
  /\ calls = [c \in AdminCalls |-> IdleCall]
  /\ isTestEnvironment = FALSE
  /\ healthy = FALSE
  /\ hist = <<>>
  /\ app = IdleApp

NextAdmin ==
  \/ \E n \in Names : \E o \in AdminOptionChoices : Reference(n, o)
  \/ \E c \in AdminCalls : \E s \in AdminSites : ExecuteThroughRegistry(c, s)
  \/ \E c \in AdminCalls : OperationResolves(c)
  \/ \E c \in AdminCalls : \E r \in NoJitter : OperationRejects(c, r)
  \/ \E c \in AdminCalls : \E r \in NoJitter : SleepEnds(c, r)
  \/ ResetAll
  \/ \E d \in AdminTickSteps : Tick(d)

SpecAdmin == InitAdmin /\ [][NextAdmin]_vars

(***************************************************************************)
(* C13: a breaker that is OPEN carries a next-retry timestamp that is a    *)
(* number other than the initial 0; on entering OPEN it is at least the    *)
(* present time plus recoveryTimeout, and while the breaker stays OPEN it  *)
(* does not decrease.                                                      *)
(***************************************************************************)
C13_ValidNextRetryTime ==
  [][\A i \in Instances :
       breakers'[i].state = OPEN =>
         /\ IsNumber(breakers'[i].nextRetryTime)
         /\ breakers'[i].nextRetryTime # 0
         /\ breakers[i].state # OPEN
              => AtLeast(breakers'[i].nextRetryTime,
                         Add(now, breakers[i].options.recoveryTimeout))
         /\ breakers[i].state = OPEN
              => AtLeast(breakers'[i].nextRetryTime, breakers[i].nextRetryTime)]_vars

(***************************************************************************)
(* C16: right after resetAll getAllStats is empty; and the first reference *)
(* to a name the registry does not hold, whether or not a breaker of that  *)
(* name existed before, yields a new breaker object that is CLOSED with    *)
(* failure, success and timeout counts 0.                                  *)
(***************************************************************************)
C16_ResetAllClears ==
  [][/\ (registry # resetAll /\ registry' = resetAll) => getAllStats' = <<>>
     /\ \A n \in Names :
          (registry[n] = 0 /\ registry'[n] # 0)
            => /\ registry'[n] \notin Instances
               /\ breakers'[registry'[n]].name = n
               /\ getStats(breakers'[registry'[n]])
                    = [failureCount |-> 0, successCount |-> 0, timeoutCount |-> 0,
                       lastFailureTime |-> Undefined, state |-> CLOSED]]_vars

C16_Witness ==
  \E n \in Names : \E i \in Instances :
    /\ breakers[i].name = n
    /\ breakers[i].state = OPEN
    /\ registry[n] # 0
    /\ registry[n] # i
    /\ getAllStats[n].state = CLOSED
    /\ getAllStats[n].failureCount = 0

(***************************************************************************)
(* SpecTest: the registry in a test environment (the flag                  *)
(* executeWithCircuitBreaker computes is true), where breakers are still   *)
(* created by getOrCreateBreaker and told of timeouts by onTimeout.        *)
(***************************************************************************)
TestCalls == 1..NumRegistryCalls

InitTest ==
  /\ now = 0
  /\ ticks = 0
  /\ breakers = <<>>
  /\ registry = [n \in Names |-> 0]
  /\ calls = [c \in TestCalls |-> IdleCall]
  /\ isTestEnvironment = TRUE
  /\ healthy = FALSE
  /\ hist = <<>>
  /\ app = IdleApp

NextTest ==
  \/ \E n \in Names : \E o \in AdminOptionChoices : Reference(n, o)
  \/ \E c \in TestCalls : \E s \in CallSites : ExecuteThroughRegistry(c, s)
  \/ \E c \in TestCalls : OperationResolves(c)
  \/ \E c \in TestCalls : OperationRejects(c, 0)
  \/ \E i \in 1..MaxBreakers : OnTimeout(i)
  \/ \E d \in AdminTickSteps : Tick(d)

SpecTest == InitTest /\ [][NextTest]_vars

BypassCallsMade == {c \in DOMAIN calls : calls[c].via = "bypass"}

(***************************************************************************)
(* C17: in a test environment a call of executeWithCircuitBreaker is never *)
(* wrapped in the retry helper or a breaker: it invokes the operation once *)
(* at once, never waits, ends with the operation's own value or error, and *)
(* no step of it changes the registry or any breaker.                      *)
(***************************************************************************)
C17_TestBypass ==
  [][\A c \in DOMAIN calls :
       /\ isTestEnvironment => calls'[c].via # "registry"
       /\ calls'[c].via = "bypass" =>
            /\ calls'[c].invoked = 1
            /\ calls'[c].attempts = 1
            /\ calls'[c].waits = 0
            /\ calls'[c].breaker = 0
            /\ calls'[c].pc \in {"pending", "done"}
            /\ calls'[c].pc = "done" => calls'[c].result \in {Err("value", 0), Err("opError", 0)}
            /\ OperationFails(c) => (calls'[c].pc = "done" /\ calls'[c].result = Err("opError", 0))
            /\ calls'[c] # calls[c]
                 => (breakers' = breakers /\ registry' = registry /\ hist' = hist)]_vars

C17_Witness ==
  \E c, d \in BypassCallsMade :
    /\ Rejected(c)
    /\ calls[c].result = Err("opError", 0)
    /\ registry[calls[c].name] # 0
    /\ Waiting(registry[calls[c].name])
    /\ breakers[registry[calls[c].name]].failureCount = 1
    /\ Resolved(d)
    /\ registry[calls[d].name] = 0

(***************************************************************************)
(* References to the registry                                              *)
(***************************************************************************)
\* the breaker objects constructed under name n
Named(n) == {i \in Instances : breakers[i].name = n}

\* one breaker per name referenced, and a reference to a known name, with
\* whatever options, returns the registered object and changes nothing
LookupIsStable ==
  \A n \in Names :
    /\ Cardinality(Named(n)) = IF registry[n] # 0 THEN 1 ELSE 0
    /\ registry[n] # 0 =>
         /\ registry[n] \in Named(n)
         /\ \A o \in RegistryOptionChoices :
              LET g == getOrCreateBreaker(n, o)
              IN  /\ g.breaker = registry[n]
                  /\ g.breakers = breakers
                  /\ g.registry = registry

(***************************************************************************)
(* C15: with no resetAll, the registry holds exactly one breaker object    *)
(* per name referenced; a name once registered stays registered to the     *)
(* same object, whose options never change; a reference to it with any     *)
(* options returns that object as it is; and a call of                     *)
(* executeWithCircuitBreaker on a known name holds the registered object   *)
(* with the counts it has accumulated.                                     *)
(***************************************************************************)
C15_RegistryLookup ==
  [][/\ LookupIsStable'
     /\ \A n \in Names :
          registry[n] # 0 =>
            /\ registry'[n] = registry[n]
            /\ breakers'[registry[n]].options = breakers[registry[n]].options
     /\ \A c \in DOMAIN calls :
          (calls[c].pc = "idle" /\ calls'[c].via = "registry" /\ registry[calls'[c].name] # 0)
            => LET i == registry[calls'[c].name]
               IN  /\ calls'[c].breaker = i
                   /\ breakers'[i].failureCount = breakers[i].failureCount
                   /\ breakers'[i].successCount = breakers[i].successCount]_vars

C15_Witness ==
  \E c, d \in RegistryCallsMade :
    LET i == calls[c].breaker
    IN  /\ c # d
        /\ calls[d].breaker = i
        /\ registry[calls[c].name] = i
        /\ breakers[i].options.failureThreshold = 2
        /\ breakers[i].failureCount = 1
        /\ calls[d].failed = 1
        /\ calls[c].failed = 0
        /\ calls[c].pc = "pending"
        /\ Len(breakers) = 2

(***************************************************************************)
(* C18: when attempt k of executeWithRetry fails and k < maxRetries, the   *)
(* call sleeps; the sleep asked for is                                     *)
(* d = min(baseDelayMs * backoffMultiplier^k, maxDelayMs) without jitter,  *)
(* and between d and d + d/10 with jitter (beyond maxDelayMs, then, when   *)
(* d = maxDelayMs).  When k = maxRetries it does not sleep.                *)
(***************************************************************************)
C18_Backoff ==
  [][\A c \in DOMAIN calls :
       (calls'[c].via = "retry" /\ OperationFails(c)) =>
         LET config == calls[c].config
             k      == calls[c].attempt
             d      == Min(config.baseDelayMs * Pow(config.backoffMultiplier, k),
                           config.maxDelayMs)
             wait   == calls'[c].wakeAt - now
         IN  /\ calls'[c].pc = "sleeping" <=> k < config.maxRetries
             /\ calls'[c].pc = "sleeping" =>
                  /\ ~config.jitter => wait = d
                  /\ config.jitter => (wait >= d /\ 10 * (wait - d) <= d)]_vars

C18_Witness ==
  \E c \in RetryCallsMade :
    /\ calls[c].pc = "sleeping"
    /\ calls[c].config.jitter
    /\ calls[c].config.maxDelayMs = 1500
    /\ calls[c].attempt = 1
    /\ calls[c].wakeAt - now > 1500
    /\ calls[c].wakeAt - now <= 1650

(***************************************************************************)
(* C19: a failure that is at least the failureThreshold-th in a row opens  *)
(* the breaker however long ago the failures before it were; and onFailure,*)
(* onSuccess and the OPEN check of execute give, for every value of        *)
(* monitoringPeriod, the result they give for the breaker's own, but for   *)
(* that field.                                                             *)
(***************************************************************************)
MonitoringPeriods == {0, 100, DefaultMonitoringPeriod}

C19_MonitoringPeriodUnused ==
  [][\A i \in Instances :
       /\ (Completes(i, "F")
             /\ TrailingFailures(hist'[i]) >= breakers[i].options.failureThreshold)
            => breakers'[i].state = OPEN
       /\ \A mp \in MonitoringPeriods :
            LET b     == breakers[i]
                bm    == [b EXCEPT !.options.monitoringPeriod = mp]
                As(x) == [x EXCEPT !.options.monitoringPeriod = mp]
            IN  /\ onFailure(bm, now) = As(onFailure(b, now))
                /\ onSuccess(bm) = As(onSuccess(b))
                /\ onTimeout(bm, now) = As(onTimeout(b, now))
                /\ ExecuteRejects(bm, now) = ExecuteRejects(b, now)
                /\ ExecuteEntry(bm, now) = As(ExecuteEntry(b, now))]_vars

C19_Witness ==
  /\ breakers[1].options.monitoringPeriod = 100
  /\ breakers[1].options.failureThreshold = 3
  /\ hist[1] = <<"F", "F", "F">>
  /\ \A c \in 1..3 : Rejected(c) /\ calls[c].result.kind = "opError"
  /\ now = 2 * Pace
  /\ breakers[1].lastFailureTime = now
  /\ breakers[1].state = OPEN

(***************************************************************************)
(* SpecItems: HackerNewsApi.getItems(ids).  ids.map starts one getItem per *)
(* id, in order and in one synchronous run: call slot k fetches ids[k]     *)
(* through executeWithCircuitBreaker on the breaker 'hacker-news-items'.   *)
(* An item is written as its id.                                           *)
(***************************************************************************)
MaxIds == 2

ItemCalls == 1..MaxIds

\* the call site of executeWithCircuitBreaker in getItem
GetItemSite ==
  [site |-> "getItem", name |-> "hacker-news-items",
   options |-> [maxRetries |-> 2, baseDelayMs |-> 500]]

\* null: what the API answers for an id it holds no item for, and what getItem
\* returns when the fetch fails
Null == 0

ItemIds == 1..(MaxIds + 1)

\* the ids the API holds no item for
Missing == {MaxIds + 1}

\* response.data of GET /item/<id>.json
ResponseData(id) == IF id \in Missing THEN Null ELSE id

\* the arguments of getItems: lists of distinct ids
IdLists ==
  {ids \in UNION {[1..n -> ItemIds] : n \in 0..MaxIds} :
     \A j, k \in DOMAIN ids : j # k => ids[j] # ids[k]}

\* getItem without its try/catch
getItem_NoCatch(k) ==
  IF Resolved(k) THEN [kind |-> "value", value |-> ResponseData(app.ids[k])]
  ELSE IF Rejected(k) THEN [kind |-> "error", value |-> Null]
  ELSE [kind |-> "pending", value |-> Null]

\* the promise getItem(ids[k]) returned: pending, or settled with a value
getItem(k) ==
  IF Resolved(k) THEN [kind |-> "value", value |-> ResponseData(app.ids[k])]
  ELSE IF Rejected(k) THEN [kind |-> "value", value |-> Null]
  ELSE [kind |-> "pending", value |-> Null]

\* Promise.all(promises)
PromiseAll(promises) ==
  IF \E k \in DOMAIN promises : promises[k].kind = "error"
    THEN [kind |-> "error", value |-> Null]
  ELSE IF \E k \in DOMAIN promises : promises[k].kind = "pending"
    THEN [kind |-> "pending", value |-> Null]
  ELSE [kind |-> "value", value |-> [k \in DOMAIN promises |-> promises[k].value]]

\* item => item !== null
NotNull(item) == item # Null

\* the calls k..n of ids.map, started in turn on breaker object i, which is b
RECURSIVE StartedFrom(_, _, _, _)
StartedFrom(k, n, i, b) ==
  IF k > n THEN [calls |-> <<>>, breaker |-> b]
  ELSE LET call == [IdleCall EXCEPT !.via = "registry", !.name = GetItemSite.name,
                                    !.breaker = i,
                                    !.config = MergeOptions(defaultOptions,
                                                            GetItemSite.options)]
           a    == StartAttempt(call, b, now, 0)
           rest == StartedFrom(k + 1, n, i, a.breaker)
       IN  [calls |-> <<a.call>> \o rest.calls, breaker |-> rest.breaker]

\* getItems(ids), up to `await Promise.all(promises)`
GetItems(ids) ==
  /\ app.pc = "idle"
  /\ IF ids = <<>>
       THEN UNCHANGED <<breakers, hist, registry, calls>>
       ELSE IF isTestEnvironment
         THEN /\ calls' = [c \in DOMAIN calls |->
                             IF c <= Len(ids)
                               THEN [IdleCall EXCEPT !.via = "bypass",
                                                     !.name = GetItemSite.name,
                                                     !.pc = "pending", !.attempts = 1,
                                                     !.invoked = 1, !.mayFail = ~healthy]
                               ELSE calls[c]]
              /\ UNCHANGED <<breakers, hist, registry>>
         ELSE LET g       == getOrCreateBreaker(GetItemSite.name, <<>>)
                  started == StartedFrom(1, Len(ids), g.breaker, g.breakers[g.breaker])
              IN  /\ registry' = g.registry
                  /\ hist' = g.hist
                  /\ calls' = [c \in DOMAIN calls |->
                                 IF c <= Len(ids) THEN started.calls[c] ELSE calls[c]]
                  /\ breakers' = [g.breakers EXCEPT ![g.breaker] = started.breaker]
  /\ app' = [pc |-> "waiting", ids |-> ids, result |-> NoError]
  /\ UNCHANGED <<now, ticks, isTestEnvironment, healthy>>

\* Promise.all settles: getItems filters the items and returns
GetItemsSettles ==
  /\ app.pc = "waiting"
  /\ LET all == PromiseAll([k \in DOMAIN app.ids |-> getItem(k)])
     IN  /\ all.kind # "pending"
         /\ app' = [app EXCEPT !.pc = "done",
                               !.result = IF all.kind = "value"
                                            THEN [kind  |-> "value",
                                                  value |-> SelectSeq(all.value, NotNull)]
                                            ELSE all]
  /\ UNCHANGED <<now, ticks, breakers, registry, calls, isTestEnvironment, healthy, hist>>

InitItems ==
  /\ now = 0
  /\ ticks = 0
  /\ breakers = <<>>
  /\ registry = [n \in Names \cup {GetItemSite.name} |-> 0]
  /\ calls = [c \in ItemCalls |-> IdleCall]
  /\ isTestEnvironment \in BOOLEAN
  /\ healthy = FALSE
  /\ hist = <<>>
  /\ app = IdleApp

NextItems ==
  \/ \E ids \in IdLists : GetItems(ids)
  \/ \E c \in ItemCalls : OperationResolves(c)
  \/ \E c \in ItemCalls : \E r \in NoJitter : OperationRejects(c, r)
  \/ \E c \in ItemCalls : \E r \in NoJitter : SleepEnds(c, r)
  \/ GetItemsSettles
  \/ \E d \in AdminTickSteps : Tick(d)

SpecItems == InitItems /\ [][NextItems]_vars

\* the positions of ids whose fetch succeeded with an item
Kept == {k \in DOMAIN app.ids : Resolved(k) /\ ResponseData(app.ids[k]) # Null}

\* the j-th of them
KthKept(j) == CHOOSE k \in Kept : Cardinality({m \in Kept : m < k}) = j - 1

(***************************************************************************)
(* C20: getItem never rejects, and resolves to null for an id whose fetch  *)
(* failed; getItems settles only when every getItem has, never rejects,    *)
(* and resolves to the items fetched, in the order of ids, one entry for   *)
(* each id whose fetch succeeded with an item.                             *)
(***************************************************************************)
C20_GetItemsNeverRejects ==
  /\ \A k \in DOMAIN app.ids :
       /\ getItem(k).kind # "error"
       /\ Rejected(k) => getItem(k) = [kind |-> "value", value |-> Null]
  /\ app.pc = "done" =>
       /\ \A k \in DOMAIN app.ids : calls[k].pc = "done"
       /\ app.result.kind = "value"
       /\ Len(app.result.value) = Cardinality(Kept)
       /\ \A j \in 1..Len(app.result.value) :
            app.result.value[j] = app.ids[KthKept(j)]

C20_Witness ==
  /\ app.pc = "done"
  /\ app.ids = <<2, 1>>
  /\ calls[1].via = "registry"
  /\ Rejected(1) /\ calls[1].invoked = 3
  /\ Resolved(2)
  /\ app.result = [kind |-> "value", value |-> <<1>>]

(***************************************************************************)
(* C23: a call that enters execute while the breaker is OPEN and the       *)
(* next-retry timestamp is still ahead does not invoke the operation and   *)
(* leaves the breaker as it was: state, failureCount, successCount,        *)
(* timeoutCount, lastFailureTime and nextRetryTime; no completion is       *)
(* recorded.                                                               *)
(***************************************************************************)
C23_RejectionNotCounted ==
  [][\A i \in Instances : \A c \in DOMAIN calls :
       (Enters(c, i) /\ breakers[i].state = OPEN /\ now < breakers[i].nextRetryTime)
         => /\ calls'[c].invoked = calls[c].invoked
            /\ calls'[c].failed = calls[c].failed + 1
            /\ breakers'[i] = breakers[i]
            /\ hist'[i] = hist[i]]_vars

C23_Witness ==
  \E i \in Instances : \E c \in ExecuteCallsMade :
    /\ calls[c].breaker = i
    /\ Rejected(c)
    /\ calls[c].result.kind = "openError"
    /\ calls[c].invoked = 0
    /\ breakers[i].state = OPEN
    /\ breakers[i].options.failureThreshold = 2
    /\ breakers[i].failureCount = 2
    /\ hist[i] = <<"F", "F">>
    /\ breakers[i].lastFailureTime = 0
    /\ now = 500
    /\ breakers[i].nextRetryTime = 1000

(***************************************************************************)
(* C24: in one step a breaker's state either stays, or moves CLOSED ->     *)
(* OPEN, OPEN -> HALF_OPEN, HALF_OPEN -> CLOSED or HALF_OPEN -> OPEN, or   *)
(* the step is reset(), which leaves it CLOSED.                            *)
(***************************************************************************)
Transitions ==
  {<<CLOSED, OPEN>>, <<OPEN, HALF_OPEN>>, <<HALF_OPEN, CLOSED>>, <<HALF_OPEN, OPEN>>}

C24_Transitions ==
  [][\A i \in Instances :
       \/ breakers'[i].state = breakers[i].state
       \/ <<breakers[i].state, breakers'[i].state>> \in Transitions
       \/ breakers'[i] = reset(breakers[i])]_vars

\* a call started while CLOSED succeeds while the breaker is OPEN, and the
\* breaker stays OPEN; later it has gone through HALF_OPEN to CLOSED
C24_Witness ==
  \E i \in Instances :
    /\ breakers[i].options.failureThreshold = 1
    /\ hist[i] = <<"F", "S", "S">>
    /\ breakers[i].state = CLOSED
    /\ \E c, d \in ExecuteCallsMade :
         /\ calls[c].enteredAs = CLOSED /\ Resolved(c)
         /\ calls[d].enteredAs = HALF_OPEN /\ Resolved(d)

(***************************************************************************)
(* C25: a breaker that is OPEN has its failure count at or above its       *)
(* failureThreshold, whatever the order in which pending calls complete.   *)
(***************************************************************************)
C25_OpenMeansThresholdReached ==
  \A i \in Instances :
    breakers[i].state = OPEN
      => breakers[i].failureCount >= breakers[i].options.failureThreshold

(***************************************************************************)
(* C26: when a call that entered execute while the breaker was CLOSED      *)
(* fails while the breaker is OPEN, the next-retry timestamp stays what it *)
(* was.                                                                    *)
(***************************************************************************)
C26_StaleFailureKeepsRetryTime ==
  [][\A i \in Instances : \A c \in Pending(i) :
       (OperationFails(c) /\ calls[c].enteredAs = CLOSED /\ breakers[i].state = OPEN)
         => breakers'[i].nextRetryTime = breakers[i].nextRetryTime]_vars

(***************************************************************************)
(* C27: a call made through executeWithCircuitBreaker keeps the breaker    *)
(* object it was given: when it completes or retries, no other breaker     *)
(* object changes, so after resetAll its successes and failures do not     *)
(* show in what getAllStats reports for the breaker then created under the *)
(* same name.                                                              *)
(***************************************************************************)
\* this step, call c goes on: its operation settles or its sleep ends
GoesOn(c) == calls[c].pc \in {"pending", "sleeping"} /\ calls'[c] # calls[c]

C27_StaleCallsUpdateDiscardedBreaker ==
  [][\A c \in RegistryCallsMade :
       GoesOn(c) =>
         /\ calls'[c].breaker = calls[c].breaker
         /\ \A i \in Instances : i # calls[c].breaker => breakers'[i] = breakers[i]
         /\ registry[calls[c].name] \notin {0, calls[c].breaker}
              => getAllStats'[calls[c].name] = getAllStats[calls[c].name]]_vars

\* the call failed once before resetAll and once more, its retry, after it;
\* the breaker made under its name after the reset has recorded nothing
C27_Witness ==
  \E c \in RegistryCallsMade :
    LET n == calls[c].name
        i == calls[c].breaker
    IN  /\ Rejected(c)
        /\ calls[c].failed = 2
        /\ hist[i] = <<"F", "R", "F">>
        /\ breakers[i].failureCount = 2
        /\ registry[n] \notin {0, i}
        /\ hist[registry[n]] = <<>>
        /\ getAllStats[n].failureCount = 0
        /\ getAllStats[n].state = CLOSED

(***************************************************************************)
(* SpecComments: the Comments component.  On mount loadComments fetches    *)
(* the story and then buildCommentTree walks its comment tree, one getItem *)
(* at a time.  The component takes getItem as it comes from hackerNewsApi: *)
(* each call gives an item, null, or is rejected.  A comment is written as *)
(* its id; the comment tree is given by the parent of every comment, a     *)
(* comment's kids being listed in ascending order.                         *)
(***************************************************************************)
MaxComments == 4

StoryId == 0
CommentIds == 1..MaxComments

\* what getItem gives for a comment: the comment, as it is, deleted, dead or
\* without text; null; or a rejection
CommentKinds == {"ok", "deleted", "dead", "notext", "null", "reject"}

\* what getItem gives for the story: the story with its kids, the story
\* without a kids field, null, or a rejection
StoryKinds == {"ok", "nokids", "null", "reject"}

RECURSIVE Ascending(_)
Ascending(S) ==
  IF S = {} THEN <<>>
  ELSE LET least == CHOOSE x \in S : \A y \in S : x <= y
       IN  <<least>> \o Ascending(S \ {least})

\* the ancestor n levels up
RECURSIVE Ancestor(_, _, _)
Ancestor(parent, i, n) ==
  IF n = 0 \/ i = StoryId THEN i ELSE Ancestor(parent, parent[i], n - 1)

\* the finite comment trees below the story
CommentTrees ==
  {parent \in [CommentIds -> {StoryId} \cup CommentIds] :
     \A i \in CommentIds : Ancestor(parent, i, MaxComments) = StoryId}

\* item.kids
KidsOf(parent, i) == Ascending({j \in CommentIds : parent[j] = i})

\* the HackerNewsItem getItem resolves with
Item(parent, kind, id) ==
  IF kind[id] = "null" THEN [id |-> Null]
  ELSE [id      |-> id,
        deleted |-> kind[id] = "deleted",
        dead    |-> kind[id] = "dead",
        text    |-> kind[id] # "notext",
        kids    |-> KidsOf(parent, id)]

\* comment && !comment.deleted && !comment.dead && comment.text
Shown(comment) ==
  comment.id # Null /\ ~comment.deleted /\ ~comment.dead /\ comment.text

\* a call of buildCommentTree(commentIds, level) in progress: its loop is at
\* commentIds[k], its local `comments` as far as it is filled
Frame(commentIds, level) ==
  [commentIds |-> commentIds, k |-> 1, level |-> level, comments |-> <<>>]

\* the loop of the innermost call goes on to its next id; a call whose loop
\* is over returns its comments, which its caller pushes onto its own
RECURSIVE NextId(_)
NextId(stack) ==
  LET n == Len(stack)
      f == stack[n]
  IN  IF f.k < Len(f.commentIds)
        THEN [stack |-> [stack EXCEPT ![n].k = @ + 1], returned |-> FALSE, value |-> <<>>]
      ELSE IF n = 1
        THEN [stack |-> <<>>, returned |-> TRUE, value |-> f.comments]
      ELSE NextId([SubSeq(stack, 1, n - 1) EXCEPT ![n - 1].comments = @ \o f.comments])

\* the loop body descending into the kids of every comment fetched non-null
buildCommentTree_DescendsIntoFiltered(stack, comment) ==
  LET n  == Len(stack)
      f  == stack[n]
      s1 == IF Shown(comment)
              THEN [stack EXCEPT ![n].comments =
                      Append(@, [id |-> comment.id, level |-> f.level])]
              ELSE stack
  IN  IF comment.id # Null /\ comment.kids # <<>>
        THEN [stack |-> Append(s1, Frame(comment.kids, f.level + 1)),
              returned |-> FALSE, value |-> <<>>]
        ELSE NextId(s1)

\* buildCommentTree: the loop body, from the comment that getItem resolved
\* with to the next await or to the return of the outermost call
buildCommentTree(stack, comment) ==
  LET n == Len(stack)
      f == stack[n]
  IN  IF Shown(comment)
        THEN LET s1 == [stack EXCEPT ![n].comments =
                          Append(@, [id |-> comment.id, level |-> f.level])]
             IN  IF comment.kids # <<>>
                   THEN [stack |-> Append(s1, Frame(comment.kids, f.level + 1)),
                         returned |-> FALSE, value |-> <<>>]
                   ELSE NextId(s1)
        ELSE NextId(stack)

\* the id the innermost call is waiting for
Awaited(stack) == stack[Len(stack)].commentIds[stack[Len(stack)].k]

\* the component when it is mounted
Mounted(parent) ==
  [pc       |-> "mounted",   \* mounted, story, tree, done
   parent   |-> parent,
   kind     |-> [i \in CommentIds |-> "none"],   \* what getItem(i) gave
   story    |-> "none",      \* what getItem(storyId) gave
   stack    |-> <<>>,
   fetched  |-> <<>>,        \* history: the ids getItem was called with, in order
   comments |-> <<>>,        \* useState: comments
   loading  |-> TRUE,        \* useState: loading
   error    |-> FALSE]       \* useState: error is not null

\* what the component renders
Render ==
  IF app.loading THEN [view |-> "loading", count |-> 0, comments |-> <<>>]
  ELSE IF app.error THEN [view |-> "error", count |-> 0, comments |-> <<>>]
  ELSE IF Len(app.comments) = 0 THEN [view |-> "empty", count |-> 0, comments |-> <<>>]
  ELSE [view |-> "list", count |-> Len(app.comments), comments |-> app.comments]

\* useEffect: loadComments() up to `await hackerNewsApi.getItem(storyId)`
LoadComments ==
  /\ app.pc = "mounted"
  /\ app' = [app EXCEPT !.pc = "story", !.loading = TRUE, !.error = FALSE,
                        !.fetched = <<StoryId>>]
  /\ UNCHANGED <<now, ticks, breakers, registry, calls, isTestEnvironment, healthy, hist>>

\* getItem(storyId) settles: loadComments up to its next await, or to its end
StorySettles(outcome) ==
  /\ app.pc = "story"
  /\ LET kids == KidsOf(app.parent, StoryId)
     IN  app' =
           IF outcome = "reject"
             THEN [app EXCEPT !.pc = "done", !.story = outcome,
                              !.error = TRUE, !.loading = FALSE]
           ELSE IF outcome \in {"null", "nokids"}
             THEN [app EXCEPT !.pc = "done", !.story = outcome,
                              !.comments = <<>>, !.loading = FALSE]
           ELSE IF kids = <<>>
             THEN [app EXCEPT !.pc = "done", !.story = outcome,
                              !.comments = <<>>, !.loading = FALSE]
           ELSE [app EXCEPT !.pc = "tree", !.story = outcome,
                            !.stack = <<Frame(kids, 0)>>,
                            !.fetched = Append(@, kids[1])]
  /\ UNCHANGED <<now, ticks, breakers, registry, calls, isTestEnvironment, healthy, hist>>

\* getItem(id) settles inside buildCommentTree: a rejection leaves every
\* call in progress and reaches the catch block of loadComments
CommentSettles(outcome) ==
  /\ app.pc = "tree"
  /\ LET id   == Awaited(app.stack)
         kind == [app.kind EXCEPT ![id] = outcome]
         r    == buildCommentTree(app.stack, Item(app.parent, kind, id))
     IN  app' =
           IF outcome = "reject"
             THEN [app EXCEPT !.pc = "done", !.kind = kind, !.stack = <<>>,
                              !.error = TRUE, !.loading = FALSE]
           ELSE IF r.returned
             THEN [app EXCEPT !.pc = "done", !.kind = kind, !.stack = <<>>,
                              !.comments = r.value, !.loading = FALSE]
           ELSE [app EXCEPT !.kind = kind, !.stack = r.stack,
                            !.fetched = Append(@, Awaited(r.stack))]
  /\ UNCHANGED <<now, ticks, breakers, registry, calls, isTestEnvironment, healthy, hist>>

InitComments ==
  /\ now = 0
  /\ ticks = 0
  /\ breakers = <<>>
  /\ registry = [n \in Names |-> 0]
  /\ calls = <<>>
  /\ isTestEnvironment = FALSE
  /\ healthy = FALSE
  /\ hist = <<>>
  /\ \E parent \in CommentTrees : app = Mounted(parent)

NextComments ==
  \/ LoadComments
  \/ \E outcome \in StoryKinds : StorySettles(outcome)
  \/ \E outcome \in CommentKinds : CommentSettles(outcome)

SpecComments == InitComments /\ [][NextComments]_vars

\* every getItem settles and the event loop runs what is due
SpecCommentsLive == SpecComments /\ WF_vars(NextComments)

(***************************************************************************)
(* The comment tree, as the claims about the Comments component speak of   *)
(* it.                                                                     *)
(***************************************************************************)
\* how far below the story's kids a comment is
RECURSIVE Depth(_, _)
Depth(parent, i) == IF parent[i] = StoryId THEN 0 ELSE 1 + Depth(parent, parent[i])

\* the comment and every comment between it and the story was fetched
\* non-null, not deleted, not dead and with text
Visible(i) ==
  \A n \in 0..MaxComments :
    LET a == Ancestor(app.parent, i, n)
    IN  a = StoryId \/ app.kind[a] = "ok"

\* the comment is a kid of the story or of a comment that is shown
Reached(i) == app.parent[i] = StoryId \/ Visible(app.parent[i])

\* the comments shown among ids and below them, depth first, a comment
\* before its replies
RECURSIVE PreOrder(_)
PreOrder(ids) ==
  IF ids = <<>> THEN <<>>
  ELSE LET i == Head(ids)
       IN  (IF app.kind[i] = "ok"
              THEN <<[id |-> i, level |-> Depth(app.parent, i)]>>
                     \o PreOrder(KidsOf(app.parent, i))
              ELSE <<>>)
           \o PreOrder(Tail(ids))

\* the comments getItem was called for
FetchedComments == SubSeq(app.fetched, 2, Len(app.fetched))

\* buildCommentTree has returned to loadComments
TreeBuilt == app.pc = "done" /\ app.story = "ok" /\ ~app.error

\* getItem was rejected for a comment
CommentRejected ==
  /\ app.pc = "done"
  /\ FetchedComments # <<>>
  /\ app.kind[FetchedComments[Len(FetchedComments)]] = "reject"

(***************************************************************************)
(* C21: when getItem is rejected for a comment, the component does not     *)
(* show the error state: it lists and counts the comments that were        *)
(* fetched and passed the filter before.                                   *)
(***************************************************************************)
C21_PartialFailure ==
  CommentRejected =>
    LET ok == SelectSeq(FetchedComments, LAMBDA i : app.kind[i] = "ok")
    IN  /\ Render.view # "error"
        /\ Render.count = Len(ok)
        /\ Render.comments =
             [k \in 1..Len(ok) |-> [id |-> ok[k], level |-> Depth(app.parent, ok[k])]]

MaxOpened == 2

\* proxies[i].name
Proxies == <<"corsproxy.io", "codetabs.com", "thingproxy", "allorigins.win", "cors.sh">>

ProxyCalls == 1..Len(Proxies)

\* the call site of executeWithCircuitBreaker in fetchHtmlContent, for proxies[k]
ProxySite(k) ==
  [site |-> "fetchHtmlContent", name |-> "proxy-service-" \o Proxies[k],
   options |-> [maxRetries |-> 1, baseDelayMs |-> 1000]]

ProxyNames == {ProxySite(k).name : k \in ProxyCalls}

\* html.length of what proxy.extractContent(response) gives (0: nothing)
ContentLengths == {0, 100, 101}

\* the test with `>=` for `>`
Sufficient_AtLeast100(html) == html >= 100

\* html && html.length > 100
Sufficient(html) == html > 100

\* the breaker after n more failures at time t
RECURSIVE Failures(_, _, _)
Failures(b, n, t) == IF n = 0 THEN b ELSE onFailure(Failures(b, n - 1, t), t)

\* the breaker of proxies[k] as earlier fetches that all failed have left it
OpenedBreaker(k) ==
  Failures(NewCircuitBreaker(ProxySite(k).name, DefaultBreakerOptions),
           DefaultFailureThreshold, 0)

\* executeWithCircuitBreaker for proxies[k], up to its first await
StartProxy(k) ==
  LET s    == ProxySite(k)
      g    == getOrCreateBreaker(s.name, <<>>)
      call == [IdleCall EXCEPT !.via = "registry", !.name = s.name,
                               !.breaker = g.breaker,
                               !.config = MergeOptions(defaultOptions, s.options)]
      a    == StartAttempt(call, g.breakers[g.breaker], now, 0)
  IN  [calls    |-> [calls EXCEPT ![k] = a.call],
       breakers |-> [g.breakers EXCEPT ![g.breaker] = a.breaker],
       hist     |-> g.hist,
       registry |-> g.registry]

\* fetchHtmlContent(url), up to the await of the first proxy
FetchHtmlContent ==
  /\ app.pc = "idle"
  /\ LET p == StartProxy(1)
     IN  /\ calls' = p.calls
         /\ breakers' = p.breakers
         /\ hist' = p.hist
         /\ registry' = p.registry
  /\ app' = [pc |-> "fetching", i |-> 1, html |-> <<>>, result |-> Null]
  /\ UNCHANGED <<now, ticks, isTestEnvironment, healthy>>

\* the call for proxies[i] settles, with html when it resolves: the loop
\* returns the html, goes on to the await of the next proxy, or returns null
ProxySettles(html) ==
  /\ app.pc = "fetching"
  /\ calls[app.i].pc = "done"
  /\ Rejected(app.i) => html = 0
  /\ LET got == Append(app.html, IF Resolved(app.i) THEN html ELSE Null)
     IN  IF Resolved(app.i) /\ Sufficient(html)
           THEN /\ app' = [app EXCEPT !.pc = "done", !.html = got, !.result = html]
                /\ UNCHANGED <<calls, breakers, hist, registry>>
         ELSE IF app.i < Len(Proxies)
           THEN LET p == StartProxy(app.i + 1)
                IN  /\ app' = [app EXCEPT !.i = @ + 1, !.html = got]
                    /\ calls' = p.calls
                    /\ breakers' = p.breakers
                    /\ hist' = p.hist
                    /\ registry' = p.registry
         ELSE /\ app' = [app EXCEPT !.pc = "done", !.html = got, !.result = Null]
              /\ UNCHANGED <<calls, breakers, hist, registry>>
  /\ UNCHANGED <<now, ticks, isTestEnvironment, healthy>>

\* time passes until the sleep of a waiting call is over
SleepPasses(c) ==
  /\ calls[c].pc = "sleeping"
  /\ now < calls[c].wakeAt
  /\ now' = calls[c].wakeAt
  /\ UNCHANGED <<ticks, breakers, registry, calls, isTestEnvironment, healthy, hist, app>>

InitProxies ==
  /\ now = 0
  /\ ticks = 0
  /\ \E open \in {S \in SUBSET ProxyCalls : Cardinality(S) <= MaxOpened} :
       LET opened == Ascending(open)
       IN  /\ breakers = [j \in DOMAIN opened |-> OpenedBreaker(opened[j])]
           /\ hist = [j \in DOMAIN opened |->
                        [f \in 1..DefaultFailureThreshold |-> "F"]]
           /\ registry = [n \in Names \cup ProxyNames |->
                            IF \E j \in DOMAIN opened : ProxySite(opened[j]).name = n
                              THEN CHOOSE j \in DOMAIN opened : ProxySite(opened[j]).name = n
                              ELSE 0]
  /\ calls = [c \in ProxyCalls |-> IdleCall]
  /\ isTestEnvironment = FALSE
  /\ healthy = FALSE
  /\ app = IdleApp

NextProxies ==
  \/ FetchHtmlContent
  \/ \E c \in ProxyCalls : OperationResolves(c)
  \/ \E c \in ProxyCalls : \E r \in NoJitter : OperationRejects(c, r)
  \/ \E c \in ProxyCalls : \E r \in NoJitter : SleepEnds(c, r)
  \/ \E c \in ProxyCalls : SleepPasses(c)
  \/ \E html \in ContentLengths : ProxySettles(html)

SpecProxies == InitProxies /\ [][NextProxies]_vars

(***************************************************************************)
(* C28: the request through proxies[k] is made on the breaker named        *)
(* proxy-service-<proxies[k].name>, a breaker of its own, and only after   *)
(* the requests through all proxies before it have failed, were rejected   *)
(* by their OPEN breaker, or gave no more than 100 characters;             *)
(* fetchHtmlContent returns the html of the first proxy that gives more    *)
(* than 100 characters, no later proxy having been contacted; it returns   *)
(* null only when all five have failed or given too little; and it does    *)
(* not stop before either.                                                 *)
(***************************************************************************)
\* the request through proxies[k] has failed or given insufficient content
GaveNothing(k) ==
  /\ calls[k].pc = "done"
  /\ k <= Len(app.html)
  /\ \/ Rejected(k) /\ app.html[k] = Null
     \/ Resolved(k) /\ app.html[k] <= 100

C28_ProxyFallback ==
  /\ \A k \in ProxyCalls :
       calls[k].pc # "idle" =>
         /\ app.pc # "idle"
         /\ calls[k].name = "proxy-service-" \o Proxies[k]
         /\ breakers[calls[k].breaker].name = calls[k].name
         /\ \A j \in ProxyCalls : j # k /\ calls[j].pc # "idle"
              => calls[j].breaker # calls[k].breaker
         /\ \A j \in 1..(k - 1) : GaveNothing(j)
  /\ app.pc = "fetching" => app.i \in ProxyCalls /\ calls[app.i].pc # "idle"
  /\ app.pc = "done" =>
       \/ /\ app.result # Null
          /\ \E k \in ProxyCalls :
               /\ Resolved(k)
               /\ Len(app.html) = k
               /\ app.html[k] = app.result
               /\ app.result > 100
               /\ \A j \in (k + 1)..Len(Proxies) :
                    calls[j].pc = "idle" /\ calls[j].invoked = 0
       \/ /\ app.result = Null
          /\ \A k \in ProxyCalls : GaveNothing(k)

\* the first proxy's breaker is OPEN and rejects both attempts, the second
\* proxy fails twice, the third gives 100 characters, the fourth answers
\* with enough on its second attempt, and the fifth is not contacted
C28_Witness ==
  /\ app.pc = "done"
  /\ app.result = 101
  /\ app.html = <<Null, Null, 100, 101>>
  /\ Rejected(1) /\ calls[1].result.kind = "openError" /\ calls[1].invoked = 0
  /\ calls[1].attempts = 2
  /\ Rejected(2) /\ calls[2].result.kind = "opError" /\ calls[2].invoked = 2
  /\ Resolved(3) /\ calls[3].invoked = 1
  /\ Resolved(4) /\ calls[4].invoked = 2
  /\ calls[5].pc = "idle"
  /\ breakers[calls[4].breaker].name = "proxy-service-allorigins.win"

(***************************************************************************)
(* SpecReducer: storyListReducer of useStoryListState, driven by any       *)
(* sequence of actions from the initial state.  A Set is a set, a Map a    *)
(* function on its keys.                                                   *)
(***************************************************************************)
MaxStories == 2

StoryIds == 1..MaxStories

\* the summary texts
Summaries == {"a summary", "another summary"}

\* new Map(m).set(k, v)
MapSet(map, k, v) == [x \in DOMAIN map \cup {k} |-> IF x = k THEN v ELSE map[x]]

\* new Set(array)
NewSet(array) == {array[k] : k \in DOMAIN array}

\* storyIds: number[]
IdArrays == UNION {[1..n -> StoryIds] : n \in 0..MaxStories}

initialState ==
  [summaries        |-> <<>>,
   loadingSummaries |-> {},
   failedSummaries  |-> {},
   expandedStory    |-> Null,
   visibleStories   |-> {},
   selectedStory    |-> Null]

StoryListAction ==
  [type : {"SUMMARY_LOADING"}, storyId : StoryIds]
  \cup [type : {"SUMMARY_SUCCESS"}, storyId : StoryIds, summary : Summaries]
  \cup [type : {"SUMMARY_FAILED"}, storyId : StoryIds]
  \cup [type : {"TOGGLE_STORY_EXPANSION"}, storyId : StoryIds]
  \cup [type : {"SET_VISIBLE_STORIES"}, storyIds : IdArrays]
  \cup [type : {"ADD_VISIBLE_STORY"}, storyId : StoryIds]
  \cup [type : {"CLEAR_VISIBLE_STORIES"}]
  \cup [type : {"SELECT_STORY"}, storyId : StoryIds \cup {Null}]
  \cup [type : {"CLEAR_ALL_STATE"}]
  \cup [type : {"RESET_SUMMARIES"}]

\* the reducer with a SUMMARY_FAILED case that leaves loadingSummaries alone
storyListReducer_FailedKeepsLoading(state, action) ==
  IF action.type = "SUMMARY_LOADING"
    THEN [state EXCEPT !.loadingSummaries = @ \cup {action.storyId},
                       !.failedSummaries = @ \ {action.storyId}]
  ELSE IF action.type = "SUMMARY_SUCCESS"
    THEN [state EXCEPT !.summaries = MapSet(@, action.storyId, action.summary),
                       !.loadingSummaries = @ \ {action.storyId}]
  ELSE IF action.type = "SUMMARY_FAILED"
    THEN [state EXCEPT !.failedSummaries = @ \cup {action.storyId}]
  ELSE IF action.type = "TOGGLE_STORY_EXPANSION"
    THEN [state EXCEPT !.expandedStory = IF @ = action.storyId THEN Null
                                                                ELSE action.storyId]
  ELSE IF action.type = "SET_VISIBLE_STORIES"
    THEN [state EXCEPT !.visibleStories = NewSet(action.storyIds)]
  ELSE IF action.type = "ADD_VISIBLE_STORY"
    THEN IF action.storyId \in state.visibleStories
           THEN state
           ELSE [state EXCEPT !.visibleStories = @ \cup {action.storyId}]
  ELSE IF action.type = "CLEAR_VISIBLE_STORIES"
    THEN [state EXCEPT !.visibleStories = {}]
  ELSE IF action.type = "SELECT_STORY"
    THEN [state EXCEPT !.selectedStory = action.storyId]
  ELSE IF action.type = "CLEAR_ALL_STATE"
    THEN initialState
  ELSE IF action.type = "RESET_SUMMARIES"
    THEN [state EXCEPT !.summaries = <<>>, !.loadingSummaries = {},
                       !.failedSummaries = {}]
  ELSE state

storyListReducer(state, action) ==
  IF action.type = "SUMMARY_LOADING"
    THEN [state EXCEPT !.loadingSummaries = @ \cup {action.storyId},
                       !.failedSummaries = @ \ {action.storyId}]
  ELSE IF action.type = "SUMMARY_SUCCESS"
    THEN [state EXCEPT !.summaries = MapSet(@, action.storyId, action.summary),
                       !.loadingSummaries = @ \ {action.storyId}]
  ELSE IF action.type = "SUMMARY_FAILED"
    THEN [state EXCEPT !.loadingSummaries = @ \ {action.storyId},
                       !.failedSummaries = @ \cup {action.storyId}]
  ELSE IF action.type = "TOGGLE_STORY_EXPANSION"
    THEN [state EXCEPT !.expandedStory = IF @ = action.storyId THEN Null
                                                                ELSE action.storyId]
  ELSE IF action.type = "SET_VISIBLE_STORIES"
    THEN [state EXCEPT !.visibleStories = NewSet(action.storyIds)]
  ELSE IF action.type = "ADD_VISIBLE_STORY"
    THEN IF action.storyId \in state.visibleStories
           THEN state
           ELSE [state EXCEPT !.visibleStories = @ \cup {action.storyId}]
  ELSE IF action.type = "CLEAR_VISIBLE_STORIES"
    THEN [state EXCEPT !.visibleStories = {}]
  ELSE IF action.type = "SELECT_STORY"
    THEN [state EXCEPT !.selectedStory = action.storyId]
  ELSE IF action.type = "CLEAR_ALL_STATE"
    THEN initialState
  ELSE IF action.type = "RESET_SUMMARIES"
    THEN [state EXCEPT !.summaries = <<>>, !.loadingSummaries = {},
                       !.failedSummaries = {}]
  ELSE state

\* dispatch(action)
Dispatch(action) ==
  /\ app' = storyListReducer(app, action)
  /\ UNCHANGED <<now, ticks, breakers, registry, calls, isTestEnvironment, healthy, hist>>

InitReducer ==
  /\ now = 0
  /\ ticks = 0
  /\ breakers = <<>>
  /\ registry = [n \in Names |-> 0]
  /\ calls = <<>>
  /\ isTestEnvironment = FALSE
  /\ healthy = FALSE
  /\ hist = <<>>
  /\ app = initialState

NextReducer == \E action \in StoryListAction : Dispatch(action)

SpecReducer == InitReducer /\ [][NextReducer]_vars

(***************************************************************************)
(* C29: whatever actions the reducer has been given, no story id is in     *)
(* both loadingSummaries and failedSummaries.                              *)
(***************************************************************************)
C29_LoadingAndFailedDisjoint ==
  app.loadingSummaries \cap app.failedSummaries = {}

\* one story is loading while another has failed; the failed one has a
\* summary from an earlier success
C29_Witness ==
  /\ app.loadingSummaries = {1}
  /\ app.failedSummaries = {2}
  /\ DOMAIN app.summaries = {2}

(***************************************************************************)
(* SpecStoryList: the summaries of the StoryList component.  The stories   *)
(* are loaded and none is hidden; a handler runs with the state of the     *)
(* render before it, which is the state when it starts, and what it        *)
(* dispatches is in the state of the render after it.  Every               *)
(* getArticleSummary call settles.                                         *)
(***************************************************************************)
\* how often the category changes
MaxChanges == 1

\* visibleStories.slice(0, 5)
FirstStories == {id \in StoryIds : id <= 5}

\* what getArticleSummary settles with: a summary, null, or a rejection
SummaryOutcomes == Summaries \cup {"null", "reject"}

\* the component with its stories loaded: none has a summary, none is asked for
Loaded(urls) ==
  [state   |-> initialState,
   urls    |-> urls,                         \* the stories that have a url
   pending |-> [id \in StoryIds |-> 0],      \* getArticleSummary calls not settled
   changes |-> 0,                            \* history: category changes
   retried |-> {}]                           \* history: failed stories retrySummary
                                             \* marked loading, loading since

\* loadSummaryRef.current(story), up to its await: `state` is the state of the
\* last render, `current` the reducer's state after the dispatches so far
loadSummary(state, current, urls, id) ==
  IF id \notin urls
    THEN [state |-> current, started |-> FALSE]
  ELSE IF id \in DOMAIN state.summaries
          \/ id \in state.loadingSummaries
          \/ id \in state.failedSummaries
    THEN [state |-> current, started |-> FALSE]
  ELSE [state   |-> storyListReducer(current, [type |-> "SUMMARY_LOADING", storyId |-> id]),
        started |-> TRUE]

\* loadSummary(story) for the stories of a list, in turn
RECURSIVE loadSummaries(_, _, _, _)
loadSummaries(state, current, urls, ids) ==
  IF ids = <<>> THEN [state |-> current, started |-> {}]
  ELSE LET first == loadSummary(state, current, urls, Head(ids))
           rest  == loadSummaries(state, first.state, urls, Tail(ids))
       IN  [state   |-> rest.state,
            started |-> rest.started \cup (IF first.started THEN {Head(ids)} ELSE {})]

\* the component after a handler: its state, the calls the handler started
AfterHandler(state, started, retried) ==
  [app EXCEPT !.state   = state,
              !.pending = [id \in StoryIds |-> IF id \in started THEN @[id] + 1 ELSE @[id]],
              !.retried = (@ \cup retried) \cap state.loadingSummaries]

\* the effect's timer fires: loadSummariesForVisible()
LoadSummariesForVisible ==
  /\ LET l == loadSummaries(app.state, app.state, app.urls, Ascending(FirstStories))
     IN  app' = AfterHandler(l.state, l.started, {})
  /\ UNCHANGED <<now, ticks, breakers, registry, calls, isTestEnvironment, healthy, hist>>

\* a getArticleSummary(story.url) call for story id settles: loadSummaryRef.current
\* after its await
SummarySettles(id, outcome) ==
  /\ app.pending[id] > 0
  /\ LET action == IF outcome \in Summaries
                     THEN [type |-> "SUMMARY_SUCCESS", storyId |-> id, summary |-> outcome]
                     ELSE [type |-> "SUMMARY_FAILED", storyId |-> id]
         after  == AfterHandler(storyListReducer(app.state, action), {}, {})
     IN  app' = [after EXCEPT !.pending[id] = @ - 1]
  /\ UNCHANGED <<now, ticks, breakers, registry, calls, isTestEnvironment, healthy, hist>>

\* retrySummary(storyId)
RetrySummary(id) ==
  /\ LET marked == storyListReducer(app.state, [type |-> "SUMMARY_LOADING", storyId |-> id])
         l      == loadSummary(app.state, marked, app.urls, id)
     IN  app' = AfterHandler(l.state, IF l.started THEN {id} ELSE {},
                             IF id \in app.state.failedSummaries THEN {id} ELSE {})
  /\ UNCHANGED <<now, ticks, breakers, registry, calls, isTestEnvironment, healthy, hist>>

\* the category changes: actions.clearAllState(); the calls in progress go on
CategoryChanges ==
  /\ app.changes < MaxChanges
  /\ LET after == AfterHandler(storyListReducer(app.state, [type |-> "CLEAR_ALL_STATE"]),
                               {}, {})
     IN  app' = [after EXCEPT !.changes = @ + 1]
  /\ UNCHANGED <<now, ticks, breakers, registry, calls, isTestEnvironment, healthy, hist>>

InitStoryList ==
  /\ now = 0
  /\ ticks = 0
  /\ breakers = <<>>
  /\ registry = [n \in Names |-> 0]
  /\ calls = <<>>
  /\ isTestEnvironment = FALSE
  /\ healthy = FALSE
  /\ hist = <<>>
  /\ \E urls \in SUBSET StoryIds : app = Loaded(urls)

NextStoryList ==
  \/ LoadSummariesForVisible
  \/ \E id \in StoryIds : \E outcome \in SummaryOutcomes : SummarySettles(id, outcome)
  \/ \E id \in StoryIds : RetrySummary(id)
  \/ CategoryChanges

SpecStoryList ==
  /\ InitStoryList
  /\ [][NextStoryList]_vars
  /\ \A id \in StoryIds : WF_vars(\E outcome \in SummaryOutcomes : SummarySettles(id, outcome))

(***************************************************************************)
(* C30: retrySummary for a story that has a url and whose summary failed   *)
(* marks it loading and starts a getArticleSummary call for it; and a      *)
(* story so marked does not stay in loadingSummaries for ever.             *)
(***************************************************************************)
C30_RetryCompletes ==
  /\ [][\A id \in StoryIds :
          (id \in app.urls /\ id \in app.state.failedSummaries
             /\ id \in app'.retried /\ app'.changes = app.changes)
            => /\ id \in app'.state.loadingSummaries
               /\ app'.pending[id] = app.pending[id] + 1]_vars
  /\ \A id \in StoryIds :
       (id \in app.retried) ~> (id \notin app.state.loadingSummaries)
====
